---------------------------- MODULE Spec2Model ----------------------------
(***************************************************************************)
(* RLC circuit simulator core: circuit_simulator.py (circuit model,        *)
(* factory, transfer function, damping queries, simulation entry points)   *)
(* and circuit_analysis.py (CircuitAnalyzer.calculate_time_constants).     *)
(*                                                                         *)
(* Python floats are binary floating-point numbers.  They are modelled as  *)
(* sign * m * 2^e with a mantissa m of exactly `prec' bits and every       *)
(* operation rounded to nearest, ties to even, as IEEE-754 does.  The      *)
(* exponent is unbounded: overflow, underflow, infinities and NaN are not  *)
(* modelled.  A double has 53 mantissa bits; the model runs the same       *)
(* arithmetic at a small precision so that every operand can be            *)
(* enumerated.                                                             *)
(***************************************************************************)
EXTENDS Integers, Sequences, FiniteSets, TLC

VARIABLES
    prec,      \* mantissa bits of the float format of this run
    pc,        \* "start": nothing constructed yet; "ready": create_circuit returned or raised
    args,      \* the arguments the session passes to create_circuit
    circuit,   \* the circuit object (None when construction raised or has not run)
    result,    \* what the last call returned or raised
    gui        \* the figures of the window (None in a session without the window)

vars == <<prec, pc, args, circuit, result, gui>>

None == [none |-> TRUE]

-----------------------------------------------------------------------------
(* Bounds of the model *)

\* mantissa bits of the exhaustive runs (a double has 53)
Prec == 4
\* mantissa bits of the run on the decimal values a user types into the GUI
ScenarioPrec == 12
\* mantissa bits of the runs on the circuits with C = 1 around critical damping
FinePrec == 7

-----------------------------------------------------------------------------
(* Binary floating point, round to nearest even *)

\* number of bits of n > 0
BitLen(n) ==
    CHOOSE k \in (IF n < 256 THEN 1..8 ELSE IF n < 65536 THEN 9..16
                  ELSE IF n < 16777216 THEN 17..24 ELSE 25..31) :
        2^(k-1) <= n /\ (k = 31 \/ n < 2^k)

Zero == [sgn |-> 0, m |-> 0, e |-> 0]

\* the float nearest to sgn * n * 2^e, n > 0 an integer
Normal(sgn, n, e) ==
    LET len == BitLen(n) IN
    IF len <= prec
    THEN [sgn |-> sgn, m |-> n * 2^(prec - len), e |-> e - (prec - len)]
    ELSE LET k    == len - prec
             q    == n \div 2^k
             r    == n % 2^k
             half == 2^(k-1)
             q1   == IF r > half \/ (r = half /\ q % 2 = 1) THEN q + 1 ELSE q
         IN  IF q1 = 2^prec
             THEN [sgn |-> sgn, m |-> 2^(prec-1), e |-> e + k + 1]
             ELSE [sgn |-> sgn, m |-> q1, e |-> e + k]

\* the float nearest to n * 2^e, n an integer
Round(n, e) == IF n = 0 THEN Zero
               ELSE Normal(IF n < 0 THEN -1 ELSE 1, IF n < 0 THEN -n ELSE n, e)

\* float(n) for an integer literal n
FromInt(n) == Round(n, 0)

\* float("n/d") for a decimal literal with value n/d, n > 0, d > 0
FromRatio(n, d) ==
    LET k0  == prec + 2 + BitLen(d) - BitLen(n)
        k   == IF k0 < 0 THEN 0 ELSE k0
        num == n * 2^k
    IN  Normal(1, 2 * (num \div d) + (IF num % d = 0 THEN 0 ELSE 1), -k - 1)

FNeg(a) == [a EXCEPT !.sgn = -a.sgn]

FMul(a, b) ==
    IF a.sgn = 0 \/ b.sgn = 0 THEN Zero
    ELSE Normal(a.sgn * b.sgn, a.m * b.m, a.e + b.e)

\* a / b for b # 0
FDiv(a, b) ==
    IF a.sgn = 0 THEN Zero
    ELSE LET num == a.m * 2^(prec + 2)
         IN  Normal(a.sgn * b.sgn,
                    2 * (num \div b.m) + (IF num % b.m = 0 THEN 0 ELSE 1),
                    a.e - b.e - (prec + 2) - 1)

RECURSIVE IsqrtIter(_, _, _)
IsqrtIter(x, r, bit) ==
    IF bit = 0 THEN r
    ELSE IsqrtIter(x, IF (r + bit) * (r + bit) <= x THEN r + bit ELSE r, bit \div 2)

\* floor of the square root of x > 0
Isqrt(x) == IsqrtIter(x, 0, 2^((BitLen(x) - 1) \div 2))

\* math.sqrt(a) for a >= 0
FSqrt(a) ==
    IF a.sgn = 0 THEN Zero
    ELSE LET odd == a.e % 2
             m2  == IF odd = 1 THEN 2 * a.m ELSE a.m
             k   == (prec + 4) \div 2
             x   == m2 * 2^(2 * k)
             s   == Isqrt(x)
         IN  Normal(1, 2 * s + (IF s * s = x THEN 0 ELSE 1), ((a.e - odd) \div 2) - k - 1)

FAdd(a, b) ==
    IF a.sgn = 0 THEN b
    ELSE IF b.sgn = 0 THEN a
    ELSE LET hi == IF a.e >= b.e THEN a ELSE b
             lo == IF a.e >= b.e THEN b ELSE a
             d  == hi.e - lo.e
         IN  Round(IF d > prec + 2 THEN hi.sgn * hi.m * 8 + lo.sgn
                                      ELSE hi.sgn * hi.m * 2^d + lo.sgn * lo.m,
                   IF d > prec + 2 THEN hi.e - 3 ELSE lo.e)

FSub(a, b) == FAdd(a, FNeg(b))

FAbs(a) == [a EXCEPT !.sgn = IF a.sgn = 0 THEN 0 ELSE 1]

\* -1, 0 or 1 as a < b, a = b or a > b; mantissas are normalised, so of two
\* floats of one sign the one with the larger exponent has the larger magnitude
FCmp(a, b) ==
    IF a.sgn # b.sgn THEN (IF a.sgn < b.sgn THEN -1 ELSE 1)
    ELSE IF a.sgn = 0 THEN 0
    ELSE IF a.e # b.e THEN (IF a.e < b.e THEN -a.sgn ELSE a.sgn)
    ELSE IF a.m # b.m THEN (IF a.m < b.m THEN -a.sgn ELSE a.sgn)
    ELSE 0

FLt(a, b) == FCmp(a, b) = -1
FLe(a, b) == FCmp(a, b) <= 0
FGt(a, b) == FCmp(a, b) = 1

\* the literals 1 and 2 (1.0 and 2.0 in float arithmetic)
One == [sgn |-> 1, m |-> 2^(prec - 1), e |-> 1 - prec]
Two == [sgn |-> 1, m |-> 2^(prec - 1), e |-> 2 - prec]

\* math.pi
Pi == FromRatio(355, 113)


-----------------------------------------------------------------------------
(* Values returned and exceptions raised *)

Ret(v) == [raised |-> FALSE, value |-> v]
Raise(type, msg) == [raised |-> TRUE, type |-> type, msg |-> msg]

-----------------------------------------------------------------------------
(* circuit_simulator.py *)

LowerCase == <<"a", "b", "c", "d", "e", "f", "g", "h", "i", "j", "k", "l", "m",
               "n", "o", "p", "q", "r", "s", "t", "u", "v", "w", "x", "y", "z">>
UpperCase == <<"A", "B", "C", "D", "E", "F", "G", "H", "I", "J", "K", "L", "M",
               "N", "O", "P", "Q", "R", "S", "T", "U", "V", "W", "X", "Y", "Z">>

\* str.lower() of a string given as the sequence of its characters
str_lower(str) ==
    [i \in 1..Len(str) |->
        IF \E j \in 1..26 : UpperCase[j] = str[i]
        THEN LowerCase[CHOOSE j \in 1..26 : UpperCase[j] = str[i]]
        ELSE str[i]]

MsgPositive == "All circuit parameters (R, L, C) must be positive"
MsgType     == "Circuit type must be 'series' or 'parallel'"

ZeroDivision == Raise("ZeroDivisionError", "float division by zero")
DomainError  == Raise("ValueError", "math domain error")

\* lines 26-32: the fields of the new object; math.sqrt raises on a negative
\* argument and the division on a zero divisor
new_circuit(kind, R, L, C) ==
    LET Fields(product) ==
          LET Object(omega_0) ==
                Ret([kind |-> kind, R |-> R, L |-> L, C |-> C,
                     omega_0 |-> omega_0,
                     f_0 |-> FDiv(omega_0, FMul(Two, Pi))])
          IN  IF product.sgn < 0 THEN DomainError
              ELSE IF product = Zero THEN ZeroDivision
              ELSE Object(FDiv(One, FSqrt(product)))
    IN  Fields(FMul(L, C))

\* a validation that lets a zero parameter through
RLCCircuit_init_zero_accepted(kind, R, L, C) ==
    IF FLt(R, Zero) \/ FLt(L, Zero) \/ FLt(C, Zero)
    THEN Raise("ValueError", MsgPositive)
    ELSE new_circuit(kind, R, L, C)

\* RLCCircuit.__init__, reached through the constructor of either subclass
RLCCircuit_init(kind, R, L, C) ==
    IF FLe(R, Zero) \/ FLe(L, Zero) \/ FLe(C, Zero)
    THEN Raise("ValueError", MsgPositive)
    ELSE new_circuit(kind, R, L, C)

\* a factory that compares the tag as given, without lower()
create_circuit_case_sensitive(circuit_type, R, L, C) ==
    IF circuit_type = <<"s", "e", "r", "i", "e", "s">>
    THEN RLCCircuit_init("Series", R, L, C)
    ELSE IF circuit_type = <<"p", "a", "r", "a", "l", "l", "e", "l">>
    THEN RLCCircuit_init("Parallel", R, L, C)
    ELSE Raise("ValueError", MsgType)

\* create_circuit
create_circuit(circuit_type, R, L, C) ==
    IF str_lower(circuit_type) = <<"s", "e", "r", "i", "e", "s">>
    THEN RLCCircuit_init("Series", R, L, C)
    ELSE IF str_lower(circuit_type) = <<"p", "a", "r", "a", "l", "l", "e", "l">>
    THEN RLCCircuit_init("Parallel", R, L, C)
    ELSE Raise("ValueError", MsgType)

\* a parallel numerator without its trailing zero coefficient
get_transfer_function_short_numerator(c) ==
    IF c.kind = "Series"
    THEN [num |-> <<One>>,
          den |-> <<FMul(c.L, c.C), FMul(c.R, c.C), One>>]
    ELSE [num |-> <<FMul(c.R, c.C)>>,
          den |-> <<FMul(c.L, c.C), FMul(c.R, c.C), One>>]

\* SeriesRLCCircuit.get_transfer_function and ParallelRLCCircuit.get_transfer_function:
\* the coefficient lists handed to signal.TransferFunction
get_transfer_function(c) ==
    IF c.kind = "Series"
    THEN [num |-> <<One>>,
          den |-> <<FMul(c.L, c.C), FMul(c.R, c.C), One>>]
    ELSE [num |-> <<FMul(c.R, c.C), Zero>>,
          den |-> <<FMul(c.L, c.C), FMul(c.R, c.C), One>>]

\* a series damping factor with the quotient under the root inverted
get_damping_factor_inverted(c) ==
    IF c.kind = "Series"
    THEN FDiv(c.R, FMul(Two, FSqrt(FDiv(c.C, c.L))))
    ELSE FDiv(One, FMul(FMul(Two, c.R), FSqrt(FDiv(c.C, c.L))))

\* SeriesRLCCircuit.get_damping_factor and ParallelRLCCircuit.get_damping_factor
get_damping_factor(c) ==
    IF c.kind = "Series"
    THEN FDiv(c.R, FMul(Two, FSqrt(FDiv(c.L, c.C))))
    ELSE FDiv(One, FMul(FMul(Two, c.R), FSqrt(FDiv(c.C, c.L))))

\* a q factor that forgets the factor 2
get_q_factor_no_two(c) ==
    LET Q(d) == IF d = Zero THEN ZeroDivision ELSE Ret(FDiv(One, d))
    IN  Q(get_damping_factor(c))

\* RLCCircuit.get_q_factor
get_q_factor(c) ==
    LET Q(d) == IF d = Zero THEN ZeroDivision ELSE Ret(FDiv(One, d))
    IN  Q(FMul(Two, get_damping_factor(c)))

\* a classification whose first comparison is zeta <= 1
get_damping_type_inclusive(c) ==
    LET zeta == get_damping_factor(c)
    IN  IF FLe(zeta, One) THEN "Underdamped"
        ELSE IF zeta = One THEN "Critically Damped"
        ELSE "Overdamped"

\* RLCCircuit.get_damping_type
get_damping_type(c) ==
    LET zeta == get_damping_factor(c)
    IN  IF FLt(zeta, One) THEN "Underdamped"
        ELSE IF zeta = One THEN "Critically Damped"
        ELSE "Overdamped"

\* np.linspace(0, duration, num_points): numpy refuses a negative number of
\* samples; sample k of num_points > 1 is k * (duration / (num_points - 1)), the
\* last one is set to duration itself, and a single sample is 0
linspace(duration, num_points) ==
    LET Samples(step) ==
          [k \in 1..num_points |->
              IF num_points = 1 THEN Zero
              ELSE IF k = num_points THEN duration
              ELSE FMul(FromInt(k - 1), step)]
    IN  IF num_points < 0
        THEN Raise("ValueError", "Number of samples must be non-negative")
        ELSE Ret([len |-> num_points, stop |-> duration,
                  time |-> IF num_points > 1
                           THEN Samples(FDiv(duration, FromInt(num_points - 1)))
                           ELSE Samples(Zero)])

\* np.gradient(f, dx) for Len(f) >= 2 and a scalar spacing dx # 0: central
\* differences inside, one-sided differences at the two ends
gradient(f, dx) ==
    [k \in 1..Len(f) |->
        IF k = 1 THEN FDiv(FSub(f[2], f[1]), dx)
        ELSE IF k = Len(f) THEN FDiv(FSub(f[k], f[k - 1]), dx)
        ELSE FDiv(FSub(f[k + 1], f[k - 1]), FMul(Two, dx))]

RECURSIVE cumsum_exclusive(_)
\* a running sum that leaves the current sample out
cumsum_exclusive(f) ==
    IF Len(f) = 0 THEN << >>
    ELSE LET head == cumsum_exclusive(SubSeq(f, 1, Len(f) - 1))
         IN  Append(head, IF Len(f) = 1 THEN Zero
                          ELSE FAdd(head[Len(f) - 1], f[Len(f) - 1]))

RECURSIVE cumsum(_)
\* np.cumsum(f): the running sum, the current sample included
cumsum(f) ==
    IF Len(f) = 0 THEN << >>
    ELSE LET head == cumsum(SubSeq(f, 1, Len(f) - 1))
         IN  Append(head, IF Len(f) = 1 THEN f[1]
                          ELSE FAdd(head[Len(f) - 1], f[Len(f)]))

\* np.ones_like in the place of np.zeros_like
ones_like(f) == [k \in 1..Len(f) |-> One]

\* np.zeros_like(f)
zeros_like(f) == [k \in 1..Len(f) |-> Zero]

\* SeriesRLCCircuit._calculate_current_response and
\* ParallelRLCCircuit._calculate_current_response, on a time sequence t with
\* t[2] # t[1] and a voltage sequence
calculate_current_response(c, t, voltage) ==
    LET Current(dt) ==
          LET dv_dt == gradient(voltage, dt)
              i_L   == cumsum(voltage)
          IN  IF c.kind = "Series"
              THEN [k \in 1..Len(voltage) |-> FMul(dv_dt[k], c.C)]
              ELSE [k \in 1..Len(voltage) |->
                      FAdd(FAdd(FDiv(voltage[k], c.R), FMul(c.C, dv_dt[k])),
                           FDiv(FMul(i_L[k], dt), c.L))]
    IN  IF Len(voltage) < 2 THEN zeros_like(voltage)
        ELSE Current(IF Len(t) > 1 THEN FSub(t[2], t[1]) ELSE One)

\* What scipy makes of the time grid (signal.step, signal.lsim) and what the
\* current derivation makes of its output.  On a grid of at least two samples
\* over a positive duration the call returns the three sequences, each of the
\* length of the grid; the voltages are scipy's and are not computed here.  On
\* a grid of one sample signal.lsim returns the voltage squeezed to a scalar
\* array, and len(voltage) in _calculate_current_response raises TypeError.
\* scipy is not part of the repository: on any other grid the call may return
\* or raise, and the model allows both.
solve_on_grid(c, grid) ==
    LET series == Ret([kind |-> "TimeSeries", len |-> grid.len, time |-> grid.time])
    IN  IF grid.len = 1
        THEN {Raise("TypeError", "len() of unsized object")}
        ELSE IF grid.len >= 2 /\ FGt(grid.stop, Zero)
        THEN {series}
        ELSE {series, Raise("LibraryError", "degenerate time grid")}

\* RLCCircuit.simulate_step_response: the set of its possible outcomes
simulate_step_response(c, duration, num_points) ==
    LET t == linspace(duration, num_points)
    IN  IF t.raised THEN {t} ELSE solve_on_grid(c, t.value)

\* RLCCircuit.simulate_sinusoidal_response: the set of its possible outcomes
simulate_sinusoidal_response(c, frequency, amplitude, duration, num_points) ==
    LET t == linspace(duration, num_points)
    IN  IF t.raised THEN {t} ELSE solve_on_grid(c, t.value)

-----------------------------------------------------------------------------
(* numpy and scipy: the functions the analysis calls.  The elementary          *)
(* functions (log10, 10**x, arctan2) are computed in fixed point and rounded   *)
(* to the format: they are within 2^-12 of the logarithm, within a relative    *)
(* 2^-10 of the power and within 2^-20 radians of the angle, where the         *)
(* library's are within a unit in the last place.                              *)

\* floor(|a| * 2^12) with the sign of a
Fixed12(a) ==
    LET k == a.e + 12
    IN  IF a.sgn = 0 \/ k < -30 THEN 0
        ELSE IF k >= 0 THEN a.sgn * a.m * 2^k
        ELSE a.sgn * (a.m \div 2^(-k))

RECURSIVE Log2Frac(_, _, _)
\* n more bits of the binary logarithm of y / 2^14 in [1, 2), by squaring
Log2Frac(y, frac, n) ==
    IF n = 0 THEN frac
    ELSE IF y * y >= 2^29 THEN Log2Frac((y * y) \div 2^15, 2 * frac + 1, n - 1)
    ELSE Log2Frac((y * y) \div 2^14, 2 * frac, n - 1)

\* np.log10(a) for a > 0: log2(a) * 1233/4096
log10(a) ==
    Round(((a.e + prec - 1) * 4096 + Log2Frac(a.m * 2^(15 - prec), 0, 12)) * 1233, -24)

\* 2^(2^-i) * 2^14 for i = 1..12
Exp2Table ==
    <<23170, 19484, 17867, 17109, 16743, 16562, 16473, 16428,
      16406, 16395, 16390, 16387>>

RECURSIVE Exp2Frac(_, _, _)
\* 2^(f / 4096) * 2^14 for 0 <= f < 4096: the product of the table entries of f's bits
Exp2Frac(f, i, y) ==
    IF i > 12 THEN y
    ELSE Exp2Frac(f, i + 1,
                  IF (f \div 2^(12 - i)) % 2 = 1 THEN (y * Exp2Table[i]) \div 2^14 ELSE y)

\* np.power(10, a) = 2^(a * log2(10)), log2(10) = 13607/4096
power10(a) ==
    LET t == (Fixed12(a) * 13607) \div 4096
    IN  Normal(1, Exp2Frac(t % 4096, 1, 2^14), (t \div 4096) - 14)

\* atan(2^-i) * 2^24 for i = 0..21
AtanTable ==
    <<13176795, 7778716, 4110060, 2086331, 1047214, 524117,
      262123, 131069, 65536, 32768, 16384, 8192, 4096, 2048,
      1024, 512, 256, 128, 64, 32, 16, 8>>

\* pi * 2^24
Pi24 == 52707179

RECURSIVE Cordic(_, _, _, _)
\* the angle of (X, Y), X > 0, times 2^24: rotate towards the X axis
Cordic(X, Y, theta, i) ==
    IF i > 22 \/ Y = 0 THEN theta
    ELSE IF Y > 0
    THEN Cordic(X + (Y \div 2^(i - 1)), Y - (X \div 2^(i - 1)), theta + AtanTable[i], i + 1)
    ELSE Cordic(X - (Y \div 2^(i - 1)), Y + (X \div 2^(i - 1)), theta - AtanTable[i], i + 1)

\* np.arctan2(y, x) in (-pi, pi]
arctan2(y, x) ==
    LET top == IF x.e > y.e THEN x.e + prec ELSE y.e + prec
        Scaled(a) ==
          LET k == a.e + 24 - top
          IN  IF k >= 0 THEN a.m * 2^k ELSE IF k < -30 THEN 0 ELSE a.m \div 2^(-k)
        first == IF x.sgn = 0 THEN Pi24 \div 2 ELSE Cordic(Scaled(x), Scaled(y), 0, 1)
        upper == IF x.sgn < 0 THEN Pi24 - first ELSE first
    IN  IF y.sgn = 0 THEN (IF x.sgn >= 0 THEN Zero ELSE Round(Pi24, -24))
        ELSE Round(y.sgn * upper, -24)

\* np.abs of the complex number re + j*im: sqrt(re^2 + im^2) rounded once
hypot(re, im) ==
    LET hi == IF re.sgn # 0 /\ (im.sgn = 0 \/ re.e >= im.e) THEN re ELSE im
        lo == IF re.sgn # 0 /\ (im.sgn = 0 \/ re.e >= im.e) THEN im ELSE re
        Root(sum, e) ==
          LET j == (30 - BitLen(sum)) \div 2
              x == sum * 2^(2 * j)
              s == Isqrt(x)
          IN  Normal(1, 2 * s + (IF s * s = x THEN 0 ELSE 1), e - j - 1)
    IN  IF hi.sgn = 0 THEN Zero
        ELSE IF lo.sgn = 0 \/ 2 * (hi.e - lo.e) > prec + 3 THEN [hi EXCEPT !.sgn = 1]
        ELSE Root(hi.m * hi.m * 2^(2 * (hi.e - lo.e)) + lo.m * lo.m, lo.e)

\* np.linspace(start, stop, num) for num >= 2
linspace_between(start, stop, num) ==
    LET Samples(step) ==
          [k \in 1..num |->
              IF k = num THEN stop
              ELSE FAdd(FMul(FromInt(k - 1), step), start)]
    IN  Samples(FDiv(FSub(stop, start), FromInt(num - 1)))

\* np.logspace(start, stop, num) = 10 ** np.linspace(start, stop, num)
logspace(start, stop, num) ==
    LET Powers(exponents) == [k \in 1..num |-> power10(exponents[k])]
    IN  Powers(linspace_between(start, stop, num))

Complex(re, im) == [re |-> re, im |-> im]

\* a complex product with the sign of the product of the imaginary parts wrong
cmul_plus(a, b) ==
    Complex(FAdd(FMul(a.re, b.re), FMul(a.im, b.im)),
            FAdd(FMul(a.re, b.im), FMul(a.im, b.re)))

\* the product of two complex numbers, as numpy forms it
cmul(a, b) ==
    Complex(FSub(FMul(a.re, b.re), FMul(a.im, b.im)),
            FAdd(FMul(a.re, b.im), FMul(a.im, b.re)))

\* the quotient a / b of two complex numbers, b # 0, as numpy forms it: scaled
\* by the larger component of b
cdiv(a, b) ==
    LET Wide(rat) ==
          LET Scaled(scl) ==
                Complex(FMul(FAdd(a.re, FMul(a.im, rat)), scl),
                        FMul(FSub(a.im, FMul(a.re, rat)), scl))
          IN  Scaled(FDiv(One, FAdd(b.re, FMul(b.im, rat))))
        Tall(rat) ==
          LET Scaled(scl) ==
                Complex(FMul(FAdd(FMul(a.re, rat), a.im), scl),
                        FMul(FSub(FMul(a.im, rat), a.re), scl))
          IN  Scaled(FDiv(One, FAdd(b.im, FMul(b.re, rat))))
    IN  IF FCmp(FAbs(b.re), FAbs(b.im)) >= 0
        THEN Wide(FDiv(b.im, b.re))
        ELSE Tall(FDiv(b.re, b.im))

RECURSIVE polyval_from(_, _, _, _)
\* Horner's rule from coefficient k on: y = y * x + p[k]
polyval_from(p, x, k, y) ==
    IF k > Len(p) THEN y
    ELSE polyval_from(p, x, k + 1,
                      LET yx == cmul(y, x) IN Complex(FAdd(yx.re, p[k]), yx.im))

\* np.polyval(p, x) at a complex x
polyval(p, x) == polyval_from(p, x, 1, Complex(Zero, Zero))

\* signal.TransferFunction(num, den): scipy stores both coefficient lists
\* divided by the leading coefficient of the denominator
TransferFunction(num, den) ==
    [num |-> [i \in 1..Len(num) |-> FDiv(num[i], den[1])],
     den |-> [i \in 1..Len(den) |-> FDiv(den[i], den[1])]]

\* a response that comes back in the reverse order of the frequencies
freqresp_reversed(tf, omega) ==
    [k \in 1..Len(omega) |->
        cdiv(polyval(tf.num, Complex(Zero, omega[Len(omega) + 1 - k])),
             polyval(tf.den, Complex(Zero, omega[Len(omega) + 1 - k])))]

\* tf.freqresp(omega): H(j*omega[k]) = polyval(num, j*omega[k]) / polyval(den, j*omega[k])
freqresp(tf, omega) ==
    [k \in 1..Len(omega) |->
        cdiv(polyval(tf.num, Complex(Zero, omega[k])),
             polyval(tf.den, Complex(Zero, omega[k])))]

-----------------------------------------------------------------------------
(* circuit_analysis.py: CircuitAnalyzer.calculate_time_constants *)

\* an underdamped branch with the radicand 1 + zeta^2
underdamped_fields_plus_square(zeta, omega_0) ==
    LET Fields(radicand, zw) ==
          LET Record(omega_d) ==
                IF radicand.sgn < 0 THEN DomainError
                ELSE IF zw = Zero \/ omega_d = Zero THEN ZeroDivision
                ELSE Ret([damped_frequency_rad   |-> omega_d,
                          damped_frequency_hz    |-> FDiv(omega_d, FMul(Two, Pi)),
                          envelope_time_constant |-> FDiv(One, zw),
                          period_damped          |-> FDiv(FMul(Two, Pi), omega_d)])
          IN  Record(FMul(omega_0, FSqrt(radicand)))
    IN  Fields(FAdd(One, FMul(zeta, zeta)), FMul(zeta, omega_0))

\* the branch "if zeta < 1"
underdamped_fields(zeta, omega_0) ==
    LET Fields(radicand, zw) ==
          LET Record(omega_d) ==
                IF radicand.sgn < 0 THEN DomainError
                ELSE IF zw = Zero \/ omega_d = Zero THEN ZeroDivision
                ELSE Ret([damped_frequency_rad   |-> omega_d,
                          damped_frequency_hz    |-> FDiv(omega_d, FMul(Two, Pi)),
                          envelope_time_constant |-> FDiv(One, zw),
                          period_damped          |-> FDiv(FMul(Two, Pi), omega_d)])
          IN  Record(FMul(omega_0, FSqrt(radicand)))
    IN  Fields(FSub(One, FMul(zeta, zeta)), FMul(zeta, omega_0))

\* an overdamped branch with the radicand zeta^2 + 1
overdamped_fields_plus_one(zeta, omega_0) ==
    LET Fields(radicand) ==
          LET Record(s1, s2) ==
                IF radicand.sgn < 0 THEN DomainError
                ELSE IF s1 = Zero \/ s2 = Zero THEN ZeroDivision
                ELSE Ret([pole_1 |-> s1,
                          pole_2 |-> s2,
                          time_constant_1 |-> FDiv(FNeg(One), s1),
                          time_constant_2 |-> FDiv(FNeg(One), s2)])
          IN  Record(FMul(FNeg(omega_0), FAdd(zeta, FSqrt(radicand))),
                     FMul(FNeg(omega_0), FSub(zeta, FSqrt(radicand))))
    IN  Fields(FAdd(FMul(zeta, zeta), One))

\* the branch "elif zeta > 1"
overdamped_fields(zeta, omega_0) ==
    LET Fields(radicand) ==
          LET Record(s1, s2) ==
                IF radicand.sgn < 0 THEN DomainError
                ELSE IF s1 = Zero \/ s2 = Zero THEN ZeroDivision
                ELSE Ret([pole_1 |-> s1,
                          pole_2 |-> s2,
                          time_constant_1 |-> FDiv(FNeg(One), s1),
                          time_constant_2 |-> FDiv(FNeg(One), s2)])
          IN  Record(FMul(FNeg(omega_0), FAdd(zeta, FSqrt(radicand))),
                     FMul(FNeg(omega_0), FSub(zeta, FSqrt(radicand))))
    IN  Fields(FSub(FMul(zeta, zeta), One))

\* the branch "else"
critical_fields(zeta, omega_0) ==
    IF omega_0 = Zero THEN ZeroDivision
    ELSE Ret([repeated_pole |-> FNeg(omega_0),
              time_constant |-> FDiv(One, omega_0)])

NoFields == [x \in {} |-> Zero]

\* "if zeta > 0": the two settling times
settling_fields(zeta, omega_0) ==
    LET Fields(zw) ==
          IF ~FGt(zeta, Zero) THEN Ret(NoFields)
          ELSE IF zw = Zero THEN ZeroDivision
          ELSE Ret([settling_time_2_percent |-> FDiv(FromInt(4), zw),
                    settling_time_5_percent |-> FDiv(FromInt(3), zw)])
    IN  Fields(FMul(zeta, omega_0))

\* the regime's fields, chosen by the comparisons of lines 50, 57 and 65
regime_fields(zeta, omega_0) ==
    IF FLt(zeta, One) THEN underdamped_fields(zeta, omega_0)
    ELSE IF FGt(zeta, One) THEN overdamped_fields(zeta, omega_0)
    ELSE critical_fields(zeta, omega_0)

calculate_time_constants(c) ==
    LET Results(zeta, omega_0, q, type, regime, settle) ==
          IF q.raised THEN q
          ELSE IF regime.raised THEN regime
          ELSE IF settle.raised THEN settle
          ELSE Ret([natural_frequency_rad |-> omega_0,
                    natural_frequency_hz  |-> c.f_0,
                    damping_factor        |-> zeta,
                    q_factor              |-> q.value,
                    damping_type          |-> type]
                   @@ regime.value @@ settle.value)
        Analyse(zeta, omega_0) ==
          Results(zeta, omega_0, get_q_factor(c), get_damping_type(c),
                  regime_fields(zeta, omega_0), settling_fields(zeta, omega_0))
    IN  Analyse(get_damping_factor(c), c.omega_0)

-----------------------------------------------------------------------------
(* circuit_analysis.py: the frequency response and the bandwidth search *)

\* CircuitAnalyzer.analyze_frequency_response, on frequencies > 0 (at which
\* no magnitude is zero)
analyze_frequency_response(c, frequencies) ==
    LET Response(omega, h) ==
          LET Polar(magnitude, phase) ==
                [frequencies_hz   |-> frequencies,
                 frequencies_rad  |-> omega,
                 magnitude_db     |-> [k \in 1..Len(h) |->
                                         FMul(FromInt(20), log10(magnitude[k]))],
                 magnitude_linear |-> magnitude,
                 phase_deg        |-> [k \in 1..Len(h) |->
                                         FDiv(FMul(phase[k], FromInt(180)), Pi)],
                 phase_rad        |-> phase]
          IN  Polar([k \in 1..Len(h) |-> hypot(h[k].re, h[k].im)],
                    [k \in 1..Len(h) |-> arctan2(h[k].im, h[k].re)])
        Evaluate(tf, omega) == Response(omega, freqresp(tf, omega))
        Convert(tf) ==
          Evaluate(TransferFunction(tf.num, tf.den),
                   [k \in 1..Len(frequencies) |-> FMul(FMul(Two, Pi), frequencies[k])])
    IN  Convert(get_transfer_function(c))

\* the number of frequencies of the bandwidth search's sweep (10000 in the code)
SweepPoints == 9

\* np.signbit
signbit(x) == x.sgn < 0

\* np.argmax(f): the first index of the largest entry
argmax(f) ==
    CHOOSE i \in 1..Len(f) :
        /\ \A j \in 1..Len(f) : FLe(f[j], f[i])
        /\ \A j \in 1..(i - 1) : FLt(f[j], f[i])

\* the sign changes, each reported at the later sample of its pair
crossings_later_sample(f) ==
    {i + 1 : i \in {j \in 1..(Len(f) - 1) : signbit(f[j]) # signbit(f[j + 1])}}

\* np.where(np.diff(np.signbit(f)))[0]: the set of the indices whose entry and
\* the next one differ in sign
crossings(f) == {i \in 1..(Len(f) - 1) : signbit(f[i]) # signbit(f[i + 1])}

\* the least and the greatest member of a non-empty set of indices
first_of(indices) == CHOOSE i \in indices : \A j \in indices : i <= j
last_of(indices)  == CHOOSE i \in indices : \A j \in indices : j <= i

\* lines 144-152 with the test len(crossing_indices) > 2
band_fields_more_than_two(frequencies, crossing_indices, peak_frequency_hz) ==
    LET Band(f_lower, f_upper) ==
          [lower_frequency_hz |-> f_lower,
           upper_frequency_hz |-> f_upper,
           bandwidth_hz       |-> FSub(f_upper, f_lower),
           q_factor_measured  |-> FDiv(peak_frequency_hz, FSub(f_upper, f_lower))]
    IN  IF Cardinality(crossing_indices) > 2
        THEN Band(frequencies[first_of(crossing_indices)],
                  frequencies[last_of(crossing_indices)])
        ELSE NoFields

\* lines 144-152 with the measured q factor upside down
band_fields_inverted_q(frequencies, crossing_indices, peak_frequency_hz) ==
    LET Band(f_lower, f_upper) ==
          [lower_frequency_hz |-> f_lower,
           upper_frequency_hz |-> f_upper,
           bandwidth_hz       |-> FSub(f_upper, f_lower),
           q_factor_measured  |-> FDiv(FSub(f_upper, f_lower), peak_frequency_hz)]
    IN  IF Cardinality(crossing_indices) >= 2
        THEN Band(frequencies[first_of(crossing_indices)],
                  frequencies[last_of(crossing_indices)])
        ELSE NoFields

\* lines 144-152: the four fields of the band between the first and the last
\* crossing, when there are two crossings or more (the sweep's frequencies are
\* distinct, so the band is not empty)
band_fields(frequencies, crossing_indices, peak_frequency_hz) ==
    LET Band(f_lower, f_upper) ==
          [lower_frequency_hz |-> f_lower,
           upper_frequency_hz |-> f_upper,
           bandwidth_hz       |-> FSub(f_upper, f_lower),
           q_factor_measured  |-> FDiv(peak_frequency_hz, FSub(f_upper, f_lower))]
    IN  IF Cardinality(crossing_indices) >= 2
        THEN Band(frequencies[first_of(crossing_indices)],
                  frequencies[last_of(crossing_indices)])
        ELSE NoFields

\* lines 122-125: the sweep from f_0 / 100 to f_0 * 100
sweep(c) ==
    logspace(log10(FDiv(c.f_0, FromInt(100))), log10(FMul(c.f_0, FromInt(100))),
             SweepPoints)

\* CircuitAnalyzer.find_bandwidth
find_bandwidth(c, tolerance_db) ==
    LET Search(frequencies) ==
          LET Measure(magnitude_db) ==
                LET Report(peak, target_magnitude_db) ==
                      [peak_frequency_hz   |-> frequencies[peak],
                       peak_magnitude_db   |-> magnitude_db[peak],
                       target_magnitude_db |-> target_magnitude_db]
                      @@ band_fields(frequencies,
                                     crossings([k \in 1..Len(magnitude_db) |->
                                                  FSub(magnitude_db[k], target_magnitude_db)]),
                                     frequencies[peak])
                IN  Report(argmax(magnitude_db),
                           FAdd(magnitude_db[argmax(magnitude_db)], tolerance_db))
          IN  Measure(analyze_frequency_response(c, frequencies).magnitude_db)
    IN  Search(sweep(c))

-----------------------------------------------------------------------------
(* circuit_analysis.py: CircuitAnalyzer.get_educational_insights *)

\* a line of the list: the text with the places of the formatted values, and
\* the values formatted into it
Line(text, values) == [text |-> text, values |-> values]

HighQLine == Line("High Q Factor: Sharp resonance, low energy loss", << >>)
LowQLine  == Line("Low Q Factor: Broad resonance, high energy loss", << >>)

\* lines 187-190: the commentary on the q factor, which the code reaches from
\* the branch "if zeta < 1" of line 181 only
q_factor_lines(q_factor) ==
    IF FGt(q_factor, FromInt(10)) THEN <<HighQLine>>
    ELSE IF FLt(q_factor, FromRatio(1, 2)) THEN <<LowQLine>>
    ELSE << >>

get_educational_insights(c) ==
    LET Insights(analysis) ==
          LET basic ==
                <<Line("Circuit Type: {} RLC Circuit", <<c.kind>>),
                  Line("Natural Frequency: {:.3f} Hz ({:.3f} rad/s)",
                       <<analysis.natural_frequency_hz, analysis.natural_frequency_rad>>),
                  Line("Damping Factor: {:.4f}", <<analysis.damping_factor>>),
                  Line("Quality Factor (Q): {:.3f}", <<analysis.q_factor>>),
                  Line("Damping Type: {}", <<analysis.damping_type>>)>>
              damping ==
                IF FLt(analysis.damping_factor, One)
                THEN <<Line("Underdamped: Circuit oscillates with decreasing amplitude", << >>),
                       Line("   Damped Frequency: {:.3f} Hz", <<analysis.damped_frequency_hz>>),
                       Line("   Oscillation Period: {:.4f} seconds", <<analysis.period_damped>>),
                       Line("   Envelope Time Constant: {:.4f} seconds",
                            <<analysis.envelope_time_constant>>)>>
                     \o q_factor_lines(analysis.q_factor)
                ELSE IF FGt(analysis.damping_factor, One)
                THEN <<Line("Overdamped: No oscillation, slow return to equilibrium", << >>),
                       Line("   Fast Time Constant: {:.4f} seconds", <<analysis.time_constant_1>>),
                       Line("   Slow Time Constant: {:.4f} seconds", <<analysis.time_constant_2>>),
                       Line("   Response is the sum of two exponential decays", << >>)>>
                ELSE <<Line("Critically Damped: Fastest approach to equilibrium without overshoot", << >>),
                       Line("   Time Constant: {:.4f} seconds", <<analysis.time_constant>>),
                       Line("   Optimal balance between speed and stability", << >>)>>
              settling ==
                IF "settling_time_2_percent" \in DOMAIN analysis
                THEN <<Line("Settling Time (2%): {:.4f} seconds", <<analysis.settling_time_2_percent>>),
                       Line("Settling Time (5%): {:.4f} seconds", <<analysis.settling_time_5_percent>>)>>
                ELSE << >>
              energy ==
                IF c.kind = "Series"
                THEN <<Line("Series Configuration: Same current through all components", << >>),
                       Line("   Voltage divides across R, L, and C", << >>),
                       Line("   At resonance: X_L = X_C, minimum impedance", << >>)>>
                ELSE <<Line("Parallel Configuration: Same voltage across all components", << >>),
                       Line("   Current divides through R, L, and C branches", << >>),
                       Line("   At resonance: X_L = X_C, maximum impedance", << >>)>>
          IN  basic \o damping \o settling \o energy
        Explain(summary) ==
          IF summary.raised THEN summary ELSE Ret(Insights(summary.value))
    IN  Explain(calculate_time_constants(c))

-----------------------------------------------------------------------------
(* Inputs *)

Mantissas == (2^(prec - 1)) .. (2^prec - 1)

\* every float of the format in [2^x, 2^(x+1)) for x in exps
Floats(exps) ==
    {[sgn |-> 1, m |-> m, e |-> x - (prec - 1)] : m \in Mantissas, x \in exps}

\* every spelling of word in upper and lower case letters
CaseSpellings(word) ==
    {[i \in 1..Len(word) |->
        IF i \in up THEN UpperCase[CHOOSE j \in 1..26 : LowerCase[j] = word[i]]
        ELSE word[i]] : up \in SUBSET (1..Len(word))}

SeriesTag   == <<"s", "e", "r", "i", "e", "s">>
ParallelTag == <<"p", "a", "r", "a", "l", "l", "e", "l">>

OtherTags == {<<"b", "o", "g", "u", "s">>, << >>, <<"s", "e", "r", "i", "e">>,
              <<"S", "E", "R", "I", "E", "S", " ">>, <<"s", "e", "r", "i", "e", "s", "s">>,
              <<"p", "a", "r", "a", "l", "e", "l">>, <<"P", "A", "R", "A", "L", "L", "E", "L", "S">>}

AllTags == CaseSpellings(SeriesTag) \cup CaseSpellings(ParallelTag) \cup OtherTags

\* every tag, with parameters that pass and parameters that fail the validation
TagArgs ==
    [tag : AllTags, R : {One}, L : {FromInt(-1), One}, C : {One}]

\* every combination of negative, zero and positive parameters
ValidationArgs ==
    LET vals == {FromInt(-1), Zero, One}
    IN  [tag : {SeriesTag, ParallelTag}, R : vals, L : vals, C : vals]

\* every circuit with L and C in [1, 2) and R in the two binades around critical
\* damping (series: R = 2*sqrt(L/C), parallel: R = sqrt(L/C)/2)
CircuitArgs ==
    [tag : {SeriesTag}, R : Floats({0, 1}), L : Floats({0}), C : Floats({0})]
    \cup
    [tag : {ParallelTag}, R : Floats({-2, -1}), L : Floats({0}), C : Floats({0})]

\* circuits far above critical damping: zeta in [8, 16) and in [32, 64)
HeavyArgs ==
    [tag : {SeriesTag}, R : Floats({4, 6}), L : {One}, C : {One}]
    \cup
    [tag : {ParallelTag}, R : Floats({-5, -7}), L : {One}, C : {One}]

\* circuits far below critical damping: zeta in [1/16, 1/4]
LightArgs ==
    [tag : {SeriesTag}, R : Floats({-3, -2}), L : {One}, C : {One}]
    \cup
    [tag : {ParallelTag}, R : Floats({1, 2}), L : {One}, C : {One}]

\* at the finer precision: C = 1, three values of L and every R of the binade
\* of critical damping
FineArgs ==
    [tag : {SeriesTag}, R : Floats({1}),
     L : {One, FromRatio(9, 4), FromRatio(25, 16)}, C : {One}]
    \cup
    [tag : {ParallelTag}, R : Floats({-1}),
     L : {One, FromRatio(9, 4), FromRatio(25, 16)}, C : {One}]

-----------------------------------------------------------------------------
(* The session: create_circuit once, then any sequence of queries *)

Init ==
    /\ \/ /\ prec = Prec
          /\ args \in TagArgs \cup ValidationArgs \cup CircuitArgs \cup HeavyArgs \cup LightArgs
       \/ /\ prec = FinePrec
          /\ args \in FineArgs
    /\ pc = "start"
    /\ circuit = None
    /\ result = None
    /\ gui = None

CreateCircuit ==
    /\ pc = "start"
    /\ LET out == create_circuit(args.tag, args.R, args.L, args.C)
       IN  /\ circuit' = IF out.raised THEN None ELSE out.value
           /\ result' = [op |-> "create_circuit", out |-> out]
    /\ pc' = "ready"
    /\ UNCHANGED <<prec, args, gui>>

GetTransferFunction ==
    /\ pc = "ready" /\ circuit # None
    /\ result' = [op |-> "get_transfer_function", out |-> Ret(get_transfer_function(circuit))]
    /\ UNCHANGED <<prec, pc, args, circuit, gui>>

GetDampingFactor ==
    /\ pc = "ready" /\ circuit # None
    /\ result' = [op |-> "get_damping_factor", out |-> Ret(get_damping_factor(circuit))]
    /\ UNCHANGED <<prec, pc, args, circuit, gui>>

GetQFactor ==
    /\ pc = "ready" /\ circuit # None
    /\ result' = [op |-> "get_q_factor", out |-> get_q_factor(circuit)]
    /\ UNCHANGED <<prec, pc, args, circuit, gui>>

GetDampingType ==
    /\ pc = "ready" /\ circuit # None
    /\ result' = [op |-> "get_damping_type", out |-> Ret(get_damping_type(circuit))]
    /\ UNCHANGED <<prec, pc, args, circuit, gui>>

CalculateTimeConstants ==
    /\ pc = "ready" /\ circuit # None
    /\ result' = [op |-> "calculate_time_constants", out |-> calculate_time_constants(circuit)]
    /\ UNCHANGED <<prec, pc, args, circuit, gui>>

Next ==
    \/ CreateCircuit
    \/ GetTransferFunction
    \/ GetDampingFactor
    \/ GetQFactor
    \/ GetDampingType
    \/ CalculateTimeConstants

Spec == Init /\ [][Next]_vars

-----------------------------------------------------------------------------
(* The session with the simulation entry points, on a few circuits *)

SimArgs ==
    [tag : {SeriesTag, ParallelTag}, R : {One, Two, FromInt(4)}, L : {One}, C : {One}]

\* the arguments tried, each list from the usual values to the degenerate ones
Durations    == <<One, FromInt(5), Zero, FromInt(-1)>>
SampleCounts == <<3, 2, 1, 0, -1>>
Frequencies  == <<FromInt(-1), Zero, One>>
Amplitudes   == <<FromInt(-1), Zero, One>>

SimInit ==
    /\ prec = Prec
    /\ pc = "start"
    /\ args \in SimArgs
    /\ circuit = None
    /\ result = None
    /\ gui = None

SimulateStep ==
    /\ pc = "ready" /\ circuit # None
    /\ \E d \in DOMAIN Durations, n \in DOMAIN SampleCounts :
         \E out \in simulate_step_response(circuit, Durations[d], SampleCounts[n]) :
            result' = [op |-> "simulate_step_response",
                       duration |-> Durations[d], num_points |-> SampleCounts[n],
                       out |-> out]
    /\ UNCHANGED <<prec, pc, args, circuit, gui>>

SimulateSinusoidal ==
    /\ pc = "ready" /\ circuit # None
    /\ \E f \in DOMAIN Frequencies, a \in DOMAIN Amplitudes,
          d \in DOMAIN Durations, n \in DOMAIN SampleCounts :
         \E out \in simulate_sinusoidal_response(circuit, Frequencies[f], Amplitudes[a],
                                                 Durations[d], SampleCounts[n]) :
            result' = [op |-> "simulate_sinusoidal_response",
                       frequency |-> Frequencies[f], amplitude |-> Amplitudes[a],
                       duration |-> Durations[d], num_points |-> SampleCounts[n],
                       out |-> out]
    /\ UNCHANGED <<prec, pc, args, circuit, gui>>

SimNext ==
    \/ CreateCircuit
    \/ GetTransferFunction
    \/ GetDampingFactor
    \/ GetQFactor
    \/ GetDampingType
    \/ CalculateTimeConstants
    \/ SimulateSinusoidal
    \/ SimulateStep

SimSpec == SimInit /\ [][SimNext]_vars

-----------------------------------------------------------------------------
(* The current derivation on its own, on short voltage sequences *)

\* the longest voltage sequence tried
MaxSamples == 4

CurrentCircuits ==
    [tag : {SeriesTag, ParallelTag}, R : {FromInt(3)}, L : {FromInt(5)},
     C : {One, FromRatio(1, 2)}]

VoltageSamples == {FromInt(-1), Zero, One, FromRatio(3, 2)}

Voltages == UNION {[1..n -> VoltageSamples] : n \in 0..MaxSamples}

\* the grids of n samples over [0, 1] and [0, 3], and a grid of one sample
TimeGrids(n) ==
    {linspace(One, n).value.time, linspace(FromInt(3), n).value.time, <<Zero>>}

\* a circuit, a voltage sequence and a time sequence
CurrentArgs ==
    UNION {UNION {{[tag |-> c.tag, R |-> c.R, L |-> c.L, C |-> c.C,
                    t |-> t, voltage |-> voltage] : c \in CurrentCircuits} :
                  t \in TimeGrids(Len(voltage))} : voltage \in Voltages}

CurrentInit ==
    /\ prec = Prec
    /\ pc = "start"
    /\ args \in CurrentArgs
    /\ circuit = None
    /\ result = None
    /\ gui = None

CalculateCurrentResponse ==
    /\ pc = "ready" /\ circuit # None
    /\ result' = [op |-> "calculate_current_response",
                  t |-> args.t, voltage |-> args.voltage,
                  out |-> Ret(calculate_current_response(circuit, args.t, args.voltage))]
    /\ UNCHANGED <<prec, pc, args, circuit, gui>>

CurrentNext ==
    \/ CreateCircuit
    \/ CalculateCurrentResponse

CurrentSpec == CurrentInit /\ [][CurrentNext]_vars

-----------------------------------------------------------------------------
(* The session on the decimal values of the GUI, at a higher precision *)

ScenarioArgs ==
    [tag : {SeriesTag, ParallelTag},
     R : {FromInt(1), FromInt(2), FromInt(5), FromInt(10), FromInt(20), FromInt(50), FromInt(100)},
     L : {FromRatio(1, 1000), FromRatio(1, 100), FromRatio(1, 10)},
     C : {FromRatio(1, 10000), FromRatio(1, 1000), FromRatio(1, 100)}]

ScenarioInit ==
    /\ prec = ScenarioPrec
    /\ pc = "start"
    /\ args \in ScenarioArgs
    /\ circuit = None
    /\ result = None
    /\ gui = None

ScenarioSpec == ScenarioInit /\ [][Next]_vars

-----------------------------------------------------------------------------
(* The session with every operation of the core, at a precision that holds    *)
(* the constants 100 and 180 of the analysis exactly                          *)

\* the mantissa bits of this session
FreqPrec == 8

\* circuits from Q = 1/256 to Q = 128 on L = C = 1, the same on L = 7 (where
\* omega_0 is not exact), and the example values of the GUI
SessionArgs ==
    [tag : {SeriesTag, ParallelTag},
     R : {FromRatio(1, 32), FromRatio(1, 8), FromRatio(1, 2), One, Two, FromInt(8),
          FromInt(32), FromInt(128)},
     L : {One, FromInt(7)}, C : {One}]
    \cup
    [tag : {SeriesTag, ParallelTag},
     R : {FromInt(10)}, L : {FromRatio(1, 1000)}, C : {FromRatio(1, 10000)}]

\* the frequency lists tried on a circuit c: the empty list, the natural
\* frequency alone, lists in and out of order and with a repeated frequency
FrequencyLists(c) ==
    {<< >>,
     <<c.f_0>>,
     <<FDiv(c.f_0, Two), c.f_0, FMul(c.f_0, Two)>>,
     <<Two, One>>,
     <<One, FromRatio(1, 2), FromRatio(1, 2), FromInt(3)>>}

Tolerances == {FromInt(-3), FromInt(-1), FromInt(-6), Zero, FromInt(3)}

\* the simulations of this session: the duration, the number of samples and,
\* for the sinusoidal input, the frequency and the amplitude
SessionRuns ==
    {[duration |-> One, num_points |-> 2, frequency |-> One, amplitude |-> One],
     [duration |-> FromInt(5), num_points |-> 3, frequency |-> Two, amplitude |-> FromInt(3)]}

SessionInit ==
    /\ prec = FreqPrec
    /\ pc = "start"
    /\ args \in SessionArgs
    /\ circuit = None
    /\ result = None
    /\ gui = None

AnalyzeFrequencyResponse ==
    /\ pc = "ready" /\ circuit # None
    /\ \E frequencies \in FrequencyLists(circuit) :
         result' = [op |-> "analyze_frequency_response", frequencies |-> frequencies,
                    out |-> Ret(analyze_frequency_response(circuit, frequencies))]
    /\ UNCHANGED <<prec, pc, args, circuit, gui>>

FindBandwidth ==
    /\ pc = "ready" /\ circuit # None
    /\ \E tolerance_db \in Tolerances :
         result' = [op |-> "find_bandwidth", tolerance_db |-> tolerance_db,
                    out |-> Ret(find_bandwidth(circuit, tolerance_db))]
    /\ UNCHANGED <<prec, pc, args, circuit, gui>>

\* an explanation that recomputes f_0 on the way, leaving out the 2*pi
GetEducationalInsights_recomputing ==
    /\ pc = "ready" /\ circuit # None
    /\ result' = [op |-> "get_educational_insights",
                  out |-> get_educational_insights(circuit)]
    /\ circuit' = [circuit EXCEPT !.f_0 = circuit.omega_0]
    /\ UNCHANGED <<prec, pc, args, gui>>

GetEducationalInsights ==
    /\ pc = "ready" /\ circuit # None
    /\ result' = [op |-> "get_educational_insights",
                  out |-> get_educational_insights(circuit)]
    /\ UNCHANGED <<prec, pc, args, circuit, gui>>

SessionStep ==
    /\ pc = "ready" /\ circuit # None
    /\ \E run \in SessionRuns :
         \E out \in simulate_step_response(circuit, run.duration, run.num_points) :
            result' = [op |-> "simulate_step_response",
                       duration |-> run.duration, num_points |-> run.num_points,
                       out |-> out]
    /\ UNCHANGED <<prec, pc, args, circuit, gui>>

SessionSinusoidal ==
    /\ pc = "ready" /\ circuit # None
    /\ \E run \in SessionRuns :
         \E out \in simulate_sinusoidal_response(circuit, run.frequency, run.amplitude,
                                                 run.duration, run.num_points) :
            result' = [op |-> "simulate_sinusoidal_response",
                       frequency |-> run.frequency, amplitude |-> run.amplitude,
                       duration |-> run.duration, num_points |-> run.num_points,
                       out |-> out]
    /\ UNCHANGED <<prec, pc, args, circuit, gui>>

SessionNext ==
    \/ CreateCircuit
    \/ GetTransferFunction
    \/ GetDampingFactor
    \/ GetQFactor
    \/ GetDampingType
    \/ CalculateTimeConstants
    \/ SessionSinusoidal
    \/ SessionStep
    \/ AnalyzeFrequencyResponse
    \/ FindBandwidth
    \/ GetEducationalInsights

SessionSpec == SessionInit /\ [][SessionNext]_vars

-----------------------------------------------------------------------------
(* gui_interface.py: the window RLCSimulatorGUI.  The entries hold texts, the *)
(* figures are numbered in the order of their creation, and a dialog is named *)
(* by its title.                                                              *)

\* the most figures the window creates in a session
MaxFigures == 3

\* current_figure when it is None: the figures are numbered from 1
NoFigure == 0

\* float(text), on the texts the entries hold here
float_of(text) ==
    CASE text = "10.0"   -> Ret(FromInt(10))
      [] text = "64"     -> Ret(FromInt(64))
      [] text = "0.001"  -> Ret(FromRatio(1, 1000))
      [] text = "0.0001" -> Ret(FromRatio(1, 10000))
      [] text = "50.0"   -> Ret(FromInt(50))
      [] text = "1.0"    -> Ret(One)
      [] text = "5.0"    -> Ret(FromInt(5))
      [] OTHER           -> Raise("ValueError", "could not convert string to float")

\* int(text), on the texts the entries hold here
int_of(text) ==
    CASE text = "1000" -> Ret(1000)
      [] text = "1"    -> Ret(1)
      [] OTHER         -> Raise("ValueError", "invalid literal for int() with base 10")

\* what a getter hands back: the value, or None after an error dialog
Got(value) == [value |-> value, dialogs |-> << >>]
Refused(title) == [value |-> None, dialogs |-> <<title>>]

\* RLCSimulatorGUI.get_circuit_parameters
get_circuit_parameters(entries) ==
    LET Validate(R, L, C) ==
          IF R.raised \/ L.raised \/ C.raised THEN Refused("Invalid Parameters")
          ELSE IF FLe(R.value, Zero) \/ FLe(L.value, Zero) \/ FLe(C.value, Zero)
          THEN Refused("Invalid Parameters")
          ELSE Got([R |-> R.value, L |-> L.value, C |-> C.value])
    IN  Validate(float_of(entries.R), float_of(entries.L), float_of(entries.C))

\* RLCSimulatorGUI.get_simulation_parameters
get_simulation_parameters(entries) ==
    LET Validate(duration, points) ==
          IF duration.raised \/ points.raised THEN Refused("Invalid Parameters")
          ELSE IF FLe(duration.value, Zero) \/ points.value <= 0
          THEN Refused("Invalid Parameters")
          ELSE Got([duration |-> duration.value, points |-> points.value])
    IN  Validate(float_of(entries.duration), int_of(entries.points))

\* RLCSimulatorGUI.get_signal_parameters
get_signal_parameters(entries) ==
    LET Validate(frequency, amplitude) ==
          IF frequency.raised \/ amplitude.raised THEN Refused("Invalid Parameters")
          ELSE IF FLe(frequency.value, Zero) \/ FLe(amplitude.value, Zero)
          THEN Refused("Invalid Parameters")
          ELSE Got([frequency |-> frequency.value, amplitude |-> amplitude.value])
    IN  Validate(float_of(entries.freq), float_of(entries.amp))

\* RLCSimulatorGUI.create_current_circuit
create_current_circuit(entries) ==
    LET Create(params) ==
          LET Made(out) == IF out.raised THEN Refused("Circuit Error") ELSE Got(out.value)
          IN  IF params.value = None THEN params
              ELSE Made(create_circuit(entries.circuit_type, params.value.R,
                                       params.value.L, params.value.C))
    IN  Create(get_circuit_parameters(entries))

\* RLCSimulatorGUI.on_parameter_change, that is update_sine_frame_state and
\* update_circuit_analysis, given what create_current_circuit made of the
\* entries: the circuit kept, the state of the entries of the sinusoidal
\* input, the text of the analysis panel and the dialogs shown
on_parameter_change(entries, created, current_circuit, analysis_text) ==
    LET Text(c) ==
          IF calculate_time_constants(c).raised \/ get_educational_insights(c).raised
          THEN "Error in analysis"
          ELSE "CIRCUIT PARAMETERS"
    IN  [current_circuit |-> IF created.value = None THEN current_circuit
                             ELSE created.value,
         analysis_text   |-> IF created.value = None THEN analysis_text
                             ELSE Text(created.value),
         sine_state      |-> IF entries.input_type = "sinusoidal" THEN "normal"
                             ELSE "disabled",
         dialogs         |-> created.dialogs]

\* CircuitPlotter.plot_time_response: the figure is created first and is of
\* the kind "time"; the call raises where get_educational_insights does
plot_time_response(c) ==
    IF get_educational_insights(c).raised
    THEN Raise("ZeroDivisionError", "float division by zero")
    ELSE Ret("time")

\* CircuitPlotter.plot_frequency_response
plot_frequency_response(c) == Ret("frequency")

\* CircuitPlotter.plot_damping_comparison
plot_damping_comparison(L, C, R_values) == Ret("damping")

\* plt.close(figure)
close_figure(window, figure) ==
    [window EXCEPT !.figures[figure].open = FALSE]

\* a figure created and left aside: plt.figure or plt.subplots
add_figure(window, kind) ==
    [window EXCEPT !.figures = Append(@, [kind |-> kind, open |-> TRUE])]

\* the lines "self.fig = ...; self.canvas.figure = self.fig" after the
\* creation of a figure
show_figure(window) ==
    [window EXCEPT !.fig = Len(window.figures), !.canvas_figure = Len(window.figures)]

\* the line "self.current_figure = self.fig"
store_figure(window) == [window EXCEPT !.current_figure = window.fig]

\* the texts of the entries after __init__ and after Reset
DefaultEntries ==
    [circuit_type |-> SeriesTag, R |-> "10.0", L |-> "0.001", C |-> "0.0001",
     input_type |-> "step", freq |-> "50.0", amp |-> "1.0",
     duration |-> "5.0", points |-> "1000"]

\* the texts the user puts into the entries, and the radio buttons of the
\* input signal
EntryTexts ==
    [R            |-> {"10.0", "64", "abc"},
     input_type   |-> {"step", "sinusoidal"},
     points       |-> {"1000", "1", "2.5"}]

\* RLCSimulatorGUI.__init__: the empty figure on the canvas, no figure to
\* save, and the default circuit with its analysis on the panel (the analysis
\* of the default circuit does not raise)
GuiInit ==
    /\ prec = Prec
    /\ pc = "ready"
    /\ args = DefaultEntries
    /\ circuit = create_current_circuit(DefaultEntries).value
    /\ result = [op |-> "__init__", dialogs |-> << >>]
    /\ gui = [fig |-> 1, canvas_figure |-> 1, current_figure |-> NoFigure,
              figures |-> <<[kind |-> "blank", open |-> TRUE]>>,
              analysis_text |-> "CIRCUIT PARAMETERS",
              sine_state |-> "disabled"]

\* a key released in an entry or a radio button selected
EditEntry ==
    /\ gui # None
    /\ \E field \in DOMAIN EntryTexts :
         \E text \in EntryTexts[field] :
            LET Changed(update) ==
                  /\ circuit' = update.current_circuit
                  /\ gui' = [gui EXCEPT !.analysis_text = update.analysis_text,
                                        !.sine_state = update.sine_state]
                  /\ result' = [op |-> "on_parameter_change", dialogs |-> update.dialogs]
            IN  /\ args[field] # text
                /\ args' = [args EXCEPT ![field] = text]
                /\ \E created \in {create_current_circuit(args')} :
                      Changed(on_parameter_change(args', created, circuit,
                                                  gui.analysis_text))
    /\ UNCHANGED <<prec, pc>>

\* the end of the three plotting handlers: the figure on the canvas is
\* closed, the plotter draws, and the new figure is shown and stored; an
\* exception of the plotter leaves the closed figure on the canvas
Replot(op, title, drawn, kind) ==
    IF drawn.raised
    THEN /\ gui' = add_figure(close_figure(gui, gui.fig), kind)
         /\ result' = [op |-> op, dialogs |-> <<title>>]
    ELSE /\ gui' = store_figure(show_figure(add_figure(close_figure(gui, gui.fig),
                                                       drawn.value)))
         /\ result' = [op |-> op, dialogs |-> << >>]

\* the button Simulate: RLCSimulatorGUI.simulate_circuit
SimulateCircuit ==
    /\ gui # None /\ Len(gui.figures) < MaxFigures
    /\ LET Stop(dialogs) ==
             /\ result' = [op |-> "simulate_circuit", dialogs |-> dialogs]
             /\ UNCHANGED gui
           Simulate(c, sim, sig) ==
             IF args.input_type = "step"
             THEN simulate_step_response(c, sim.duration, sim.points)
             ELSE simulate_sinusoidal_response(c, sig.frequency, sig.amplitude,
                                               sim.duration, sim.points)
       IN  \E created \in {create_current_circuit(args)} :
           \E sim \in {get_simulation_parameters(args)} :
           \E sig \in {get_signal_parameters(args)} :
              IF created.value = None THEN Stop(created.dialogs)
              ELSE IF sim.value = None THEN Stop(sim.dialogs)
              ELSE IF args.input_type # "step" /\ sig.value = None THEN Stop(sig.dialogs)
              ELSE \E out \in Simulate(created.value, sim.value, sig.value) :
                      IF out.raised THEN Stop(<<"Simulation Error">>)
                      ELSE \E drawn \in {plot_time_response(created.value)} :
                              Replot("simulate_circuit", "Simulation Error", drawn, "time")
    /\ UNCHANGED <<prec, pc, args, circuit>>

\* the button Frequency Response: RLCSimulatorGUI.show_frequency_response
ShowFrequencyResponse ==
    /\ gui # None /\ Len(gui.figures) < MaxFigures
    /\ LET Run(created) ==
             IF created.value = None
             THEN /\ result' = [op |-> "show_frequency_response",
                                dialogs |-> created.dialogs]
                  /\ UNCHANGED gui
             ELSE Replot("show_frequency_response", "Frequency Response Error",
                         plot_frequency_response(created.value), "frequency")
       IN  \E created \in {create_current_circuit(args)} : Run(created)
    /\ UNCHANGED <<prec, pc, args, circuit>>

\* the button Compare Damping: RLCSimulatorGUI.compare_damping
CompareDamping ==
    /\ gui # None /\ Len(gui.figures) < MaxFigures
    /\ LET Run(params) ==
             IF params.value = None
             THEN /\ result' = [op |-> "compare_damping", dialogs |-> params.dialogs]
                  /\ UNCHANGED gui
             ELSE Replot("compare_damping", "Damping Comparison Error",
                         plot_damping_comparison(params.value.L, params.value.C,
                                                 params.value.R),
                         "damping")
       IN  \E params \in {get_circuit_parameters(args)} : Run(params)
    /\ UNCHANGED <<prec, pc, args, circuit>>

\* the button Save Plot: RLCSimulatorGUI.save_plot.  The user gives a file
\* name or cancels the file dialog, and writing the file succeeds or fails.
SavePlot ==
    /\ gui # None
    /\ IF gui.current_figure = NoFigure
       THEN result' = [op |-> "save_plot", dialogs |-> <<"No Plot">>, saved |-> NoFigure]
       ELSE \E outcome \in {<<"Success">>, <<"Save Error">>, << >>} :
               result' = [op |-> "save_plot", dialogs |-> outcome,
                          saved |-> IF outcome = <<"Success">> THEN gui.current_figure
                                    ELSE NoFigure]
    /\ UNCHANGED <<prec, pc, args, circuit, gui>>

\* the button Reset: RLCSimulatorGUI.reset_parameters
ResetParameters ==
    /\ gui # None /\ Len(gui.figures) < MaxFigures
    /\ args' = DefaultEntries
    /\ LET Reset(update) ==
             /\ circuit' = update.current_circuit
             /\ gui' = show_figure(add_figure(
                          close_figure([gui EXCEPT !.analysis_text = update.analysis_text,
                                                   !.sine_state = update.sine_state],
                                       gui.fig),
                          "blank"))
             /\ result' = [op |-> "reset_parameters", dialogs |-> update.dialogs]
       IN  \E created \in {create_current_circuit(DefaultEntries)} :
              Reset(on_parameter_change(DefaultEntries, created, circuit,
                                        gui.analysis_text))
    /\ UNCHANGED <<prec, pc>>

GuiNext ==
    \/ EditEntry
    \/ SimulateCircuit
    \/ ShowFrequencyResponse
    \/ CompareDamping
    \/ SavePlot
    \/ ResetParameters

GuiSpec == GuiInit /\ [][GuiNext]_vars

-----------------------------------------------------------------------------
(* Helpers of the properties *)

Positive(x) == x.sgn = 1

AllPositive == Positive(args.R) /\ Positive(args.L) /\ Positive(args.C)

\* tag is word, letter by letter, each letter in either case
Spells(tag, word) ==
    /\ Len(tag) = Len(word)
    /\ \A i \in 1..Len(word) :
          \E j \in 1..26 : /\ LowerCase[j] = word[i]
                           /\ tag[i] \in {LowerCase[j], UpperCase[j]}

IsSeriesTag   == Spells(args.tag, SeriesTag)
IsParallelTag == Spells(args.tag, ParallelTag)

Created == pc = "ready" /\ result.op = "create_circuit"

Returned(op) == pc = "ready" /\ result.op = op

\* the sign of A * 2^ea - B * 2^eb, for positive integers A and B, exactly
CmpScaled(A, ea, B, eb) ==
    LET ha == BitLen(A) + ea
        hb == BitLen(B) + eb
        lo == IF ea < eb THEN ea ELSE eb
    IN  IF ha > hb THEN 1
        ELSE IF ha < hb THEN -1
        ELSE IF A * 2^(ea - lo) > B * 2^(eb - lo) THEN 1
        ELSE IF A * 2^(ea - lo) < B * 2^(eb - lo) THEN -1
        ELSE 0

\* The two sides of the damping condition as exact numbers n * 2^e: R^2*C
\* against 4*L for a series circuit, L against 4*R^2*C for a parallel one.  In
\* real numbers the circuit is underdamped where the left side is the smaller.
DampingLeft ==
    IF IsSeriesTag
    THEN [n |-> args.R.m * args.R.m * args.C.m, e |-> 2 * args.R.e + args.C.e]
    ELSE [n |-> args.L.m, e |-> args.L.e]

DampingRight ==
    IF IsSeriesTag
    THEN [n |-> args.L.m, e |-> args.L.e + 2]
    ELSE [n |-> args.R.m * args.R.m * args.C.m, e |-> 2 * args.R.e + args.C.e + 2]

\* the sign of left - right
DiscriminantSign ==
    CmpScaled(DampingLeft.n, DampingLeft.e, DampingRight.n, DampingRight.e)

\* left * (1 + 2^(4 - prec)) <= right, and right * (1 + 2^(4 - prec)) <= left:
\* the two sides differ by more than the rounding of zeta can bridge
FarBelow ==
    CmpScaled(DampingLeft.n * (2^(prec - 4) + 1), DampingLeft.e - (prec - 4),
              DampingRight.n, DampingRight.e) <= 0

FarAbove ==
    CmpScaled(DampingRight.n * (2^(prec - 4) + 1), DampingRight.e - (prec - 4),
              DampingLeft.n, DampingLeft.e) <= 0

\* the float just below 1
PredOne == [sgn |-> 1, m |-> 2^prec - 1, e |-> -prec]

\* a and b, both positive, differ by no more than a relative 2^(2 - prec)
WithinRounding(a, b) ==
    FLe(FAbs(FSub(a, b)), FMul(a, [sgn |-> 1, m |-> 2^(prec - 1), e |-> 3 - 2 * prec]))

\* the keys of the summary record
BaseFields == {"natural_frequency_rad", "natural_frequency_hz", "damping_factor",
               "q_factor", "damping_type"}
UnderdampedFields == {"damped_frequency_rad", "damped_frequency_hz",
                      "envelope_time_constant", "period_damped"}
OverdampedFields == {"pole_1", "pole_2", "time_constant_1", "time_constant_2"}
CriticalFields == {"repeated_pole", "time_constant"}
SettlingFields == {"settling_time_2_percent", "settling_time_5_percent"}

-----------------------------------------------------------------------------
(* Construction and the factory *)

C2_FactoryByTag ==
    Created =>
        /\ (IsSeriesTag /\ AllPositive) =>
              ~result.out.raised /\ circuit.kind = "Series"
        /\ (IsParallelTag /\ AllPositive) =>
              ~result.out.raised /\ circuit.kind = "Parallel"
        /\ ((IsSeriesTag \/ IsParallelTag) /\ ~AllPositive) =>
              result.out = Raise("ValueError", MsgPositive)
        /\ ~(IsSeriesTag \/ IsParallelTag) =>
              /\ result.out = Raise("ValueError", MsgType)
              /\ circuit = None
        /\ MsgType # MsgPositive

\* the Series variant made from a tag that has capital letters
C2_Witness ==
    /\ Created /\ IsSeriesTag /\ args.tag # SeriesTag
    /\ ~result.out.raised /\ circuit.kind = "Series"

\* C2 as stated: the error of an unknown tag is of a kind (an exception class)
\* other than the kind of the error of a non-positive parameter.
C2_ErrorKindsDiffer ==
    (Created /\ ~(IsSeriesTag \/ IsParallelTag)) =>
        /\ result.out.raised
        /\ result.out.type # RLCCircuit_init("Series", Zero, One, One).type

-----------------------------------------------------------------------------
(* The simulation entry points *)

Simulated ==
    /\ pc = "ready"
    /\ result.op \in {"simulate_step_response", "simulate_sinusoidal_response"}

\* C3 as stated: simulate_step_response and simulate_sinusoidal_response fail
\* with the invalid-parameter error (ValueError) and produce no time series
\* whenever duration <= 0 or the sample count <= 0, and
\* simulate_sinusoidal_response also whenever frequency <= 0 or amplitude <= 0.
C3_SimulationRejectsBadArguments ==
    Simulated =>
        LET bad == \/ ~Positive(result.duration)
                   \/ result.num_points <= 0
                   \/ /\ result.op = "simulate_sinusoidal_response"
                      /\ ~Positive(result.frequency) \/ ~Positive(result.amplitude)
        IN  bad => result.out.raised /\ result.out.type = "ValueError"

-----------------------------------------------------------------------------
(* The transfer function *)

-----------------------------------------------------------------------------
(* Damping factor, q factor and damping type *)

Labels == {"Underdamped", "Critically Damped", "Overdamped"}

-----------------------------------------------------------------------------
(* The summary record *)

\* C8 as stated: calculate_time_constants always returns a record with the
\* natural frequency in rad/s and in Hz, the damping factor, the q factor and
\* the damping type, and with the fields of exactly one regime, the one its
\* damping_type names; fields of two regimes never appear together.
C8_SummaryOfOneRegime ==
    Returned("calculate_time_constants") =>
        /\ ~result.out.raised
        /\ BaseFields \subseteq DOMAIN result.out.value
        /\ result.out.value.damping_type \in Labels
        /\ \A regime \in {<<"Underdamped", UnderdampedFields>>,
                          <<"Overdamped", OverdampedFields>>,
                          <<"Critically Damped", CriticalFields>>} :
              IF result.out.value.damping_type = regime[1]
              THEN regime[2] \subseteq DOMAIN result.out.value
              ELSE regime[2] \cap DOMAIN result.out.value = {}

\* C9 as stated: for every constructible circuit the summary record holds both
\* settling times, settling_time_2_percent = 4 / (zeta * omega_0) and
\* settling_time_5_percent = 3 / (zeta * omega_0), so that 3 * settling_2 and
\* 4 * settling_5 agree (here: to within rounding), and for an underdamped
\* circuit settling_2 = 4 * envelope_time_constant.
C9_SettlingTimes ==
    Returned("calculate_time_constants") =>
        /\ ~result.out.raised
        /\ SettlingFields \subseteq DOMAIN result.out.value
        /\ LET summary == result.out.value
               zw == FMul(summary.damping_factor, circuit.omega_0)
           IN  /\ summary.settling_time_2_percent = FDiv(FromInt(4), zw)
               /\ summary.settling_time_5_percent = FDiv(FromInt(3), zw)
               /\ WithinRounding(FMul(FromInt(3), summary.settling_time_2_percent),
                                 FMul(FromInt(4), summary.settling_time_5_percent))
               /\ summary.damping_type = "Underdamped" =>
                     summary.settling_time_2_percent =
                        FMul(FromInt(4), summary.envelope_time_constant)

-----------------------------------------------------------------------------
(* The worked example: the series circuit R = 10, L = 0.001, C = 0.0001 *)

\* the decimal n / d as a float
Decimal(n, d) == FDiv(FromInt(n), FromInt(d))

\* x has the sign of the target and is within half a percent of it
Near(x, target) ==
    /\ x.sgn = target.sgn
    /\ FLe(FMul(FAbs(target), Decimal(199, 200)), FAbs(x))
    /\ FLe(FAbs(x), FMul(FAbs(target), Decimal(201, 200)))

\* the denominator L*C*s^2 + R*C*s + 1 of the circuit's transfer function at s
Denominator(s) ==
    LET den == get_transfer_function(circuit).den
    IN  FAdd(FAdd(FMul(FMul(den[1], s), s), FMul(den[2], s)), den[3])

\* s is a root of the denominator up to rounding: the value there is small
\* against the terms that cancel
NearRoot(s) ==
    LET den == get_transfer_function(circuit).den
    IN  FLe(FAbs(Denominator(s)),
            FMul(Decimal(1, 100), FAbs(FMul(den[2], s))))

IsExample ==
    /\ IsSeriesTag
    /\ args.R = FromInt(10)
    /\ args.L = FromRatio(1, 1000)
    /\ args.C = FromRatio(1, 10000)

\* the summary of the example has the overdamped fields, zeta about 1.581 and
\* omega_0 about 3162.28 rad/s, and its poles are roots of the denominator
ExampleIsOverdamped(summary) ==
    /\ summary.damping_type = "Overdamped"
    /\ OverdampedFields \subseteq DOMAIN summary
    /\ Near(summary.damping_factor, Decimal(1581, 1000))
    /\ Near(summary.natural_frequency_rad, Decimal(316228, 100))
    /\ NearRoot(summary.pole_1)
    /\ NearRoot(summary.pole_2)

\* C10 as amended: for the series circuit R=10, L=0.001, C=0.0001 the summary
\* is Overdamped (zeta about 1.581, omega_0 about 3162.28 rad/s) with
\* pole_1 about -8873.0 and pole_2 about -1127.0 rad/s, and time_constant_1
\* about 0.0001127 s and time_constant_2 about 0.0008873 s; each pole is a root
\* of the denominator L*C*s^2 + R*C*s + 1 up to rounding.
C10_ExampleSummary ==
    (Returned("calculate_time_constants") /\ IsExample) =>
        /\ ~result.out.raised
        /\ ExampleIsOverdamped(result.out.value)
        /\ Near(result.out.value.pole_1, Decimal(-88730, 10))
        /\ Near(result.out.value.pole_2, Decimal(-11270, 10))
        /\ Near(result.out.value.time_constant_1, Decimal(1127, 10000000))
        /\ Near(result.out.value.time_constant_2, Decimal(8873, 10000000))

\* the summary of the example, with its two poles
C10_Witness ==
    /\ Returned("calculate_time_constants") /\ IsExample
    /\ ~result.out.raised
    /\ FLt(result.out.value.pole_1, result.out.value.pole_2)
    /\ FLt(result.out.value.pole_2, Zero)

\* C10 as stated: the poles of the example are about -1067.4 and -9378.9 rad/s
\* and the time constants about 0.000937 s and 0.0001066 s.
C10_ExampleSummaryAsStated ==
    (Returned("calculate_time_constants") /\ IsExample) =>
        /\ ~result.out.raised
        /\ ExampleIsOverdamped(result.out.value)
        /\ \E fast \in {"1", "2"} :
              LET slow == IF fast = "1" THEN "2" ELSE "1"
                  pole == [i \in {"1", "2"} |->
                             IF i = "1" THEN result.out.value.pole_1
                             ELSE result.out.value.pole_2]
                  tc   == [i \in {"1", "2"} |->
                             IF i = "1" THEN result.out.value.time_constant_1
                             ELSE result.out.value.time_constant_2]
              IN  /\ Near(pole[slow], Decimal(-10674, 10))
                  /\ Near(pole[fast], Decimal(-93789, 10))
                  /\ Near(tc[slow], Decimal(937, 1000000))
                  /\ Near(tc[fast], Decimal(1066, 10000000))

-----------------------------------------------------------------------------
(* Time series and the current derivation *)

\* C15 as stated: a simulation call with sample count n >= 1 and duration d > 0
\* (and, for the sinusoidal response, frequency and amplitude > 0) returns
\* time, voltage and current sequences all of length n, the time grid starting
\* at 0 and ending at d, and leaves the circuit as it was.
C15_TimeSeriesOfRequestedLength ==
    (/\ Simulated /\ result.num_points >= 1 /\ Positive(result.duration)
     /\ result.op = "simulate_sinusoidal_response" =>
           Positive(result.frequency) /\ Positive(result.amplitude)) =>
        /\ ~result.out.raised
        /\ result.out.value.len = result.num_points
        /\ Len(result.out.value.time) = result.num_points
        /\ result.out.value.time[1] = Zero
        /\ result.out.value.time[result.num_points] = result.duration
        /\ circuit = create_circuit(args.tag, args.R, args.L, args.C).value

\* C16: for both variants the current derived from a voltage sequence of
\* length 0 or 1 is the all-zero sequence of that length, with no error; from
\* 2 or more points it is a sequence of the length of the voltage.
C16_ShortVoltage ==
    Returned("calculate_current_response") =>
        /\ ~result.out.raised
        /\ Len(result.out.value) = Len(result.voltage)
        /\ Len(result.voltage) < 2 =>
              \A k \in 1..Len(result.voltage) : result.out.value[k] = Zero

\* the zero current of a single sample that is itself not zero
C16_Witness ==
    /\ Returned("calculate_current_response") /\ IsParallelTag
    /\ Len(result.voltage) = 1 /\ result.voltage[1] # Zero
    /\ result.out.value = <<Zero>>

RECURSIVE RunningSum(_, _)
\* v[1] + ... + v[k], added from the left
RunningSum(v, k) == IF k = 1 THEN v[1] ELSE FAdd(RunningSum(v, k - 1), v[k])

\* the finite-difference derivative at sample k of n >= 2 samples
Derivative(v, k, dt) ==
    IF k = 1 THEN FDiv(FSub(v[2], v[1]), dt)
    ELSE IF k = Len(v) THEN FDiv(FSub(v[Len(v)], v[Len(v) - 1]), dt)
    ELSE FDiv(FSub(v[k + 1], v[k - 1]), FMul(Two, dt))

\* the spacing the derivation takes from the time sequence
Spacing(t) == IF Len(t) > 1 THEN FSub(t[2], t[1]) ELSE One

\* C17: for a parallel circuit and a voltage sequence v of 2 or more points on
\* a grid of spacing dt, current[k] = v[k]/R + C*g[k] + (v[1] + ... + v[k])*dt/L,
\* the inductor term being the inclusive running rectangular sum (not 0 at the
\* first sample, no trapezoidal halving) and g the finite-difference
\* derivative: central inside, (v[2]-v[1])/dt at the first and
\* (v[n]-v[n-1])/dt at the last sample; the series current is C*g[k].
C17_CurrentFormula ==
    (Returned("calculate_current_response") /\ Len(result.voltage) >= 2) =>
        LET v  == result.voltage
            dt == Spacing(result.t)
        IN  \A k \in 1..Len(v) :
               result.out.value[k] =
                  IF IsSeriesTag
                  THEN FMul(Derivative(v, k, dt), circuit.C)
                  ELSE FAdd(FAdd(FDiv(v[k], circuit.R),
                                 FMul(circuit.C, Derivative(v, k, dt))),
                            FDiv(FMul(RunningSum(v, k), dt), circuit.L))

\* a parallel current whose first sample has the inductor term v[1]*dt/L, on
\* a sequence long enough to have a central difference
C17_Witness ==
    /\ Returned("calculate_current_response") /\ IsParallelTag
    /\ Len(result.voltage) >= 3 /\ Len(result.t) = Len(result.voltage)
    /\ result.voltage[1] # Zero
    /\ result.out.value[1] #
          FAdd(FDiv(result.voltage[1], circuit.R),
               FMul(circuit.C, Derivative(result.voltage, 1, Spacing(result.t))))

-----------------------------------------------------------------------------
(* The damped frequency *)

\* C20 as amended: for every underdamped circuit (0 < zeta < 1) the summary's
\* damped frequency is strictly positive and not above the natural frequency:
\* 0 < damped_frequency_rad <= omega_0 and 0 < damped_frequency_hz <= f_0,
\* with damped_frequency_rad = omega_0 exactly where 1 - zeta^2 rounds to 1
\* and damped_frequency_rad < omega_0 everywhere else; the damped period is
\* finite and, up to rounding, not shorter than 1/f_0.
C20_DampedFrequency ==
    (/\ Returned("calculate_time_constants")
     /\ FLt(get_damping_factor(circuit), One)) =>
        /\ ~result.out.raised
        /\ LET summary  == result.out.value
               radicand == FSub(One, FMul(summary.damping_factor, summary.damping_factor))
               period_0 == FDiv(One, summary.natural_frequency_hz)
           IN  /\ Positive(summary.damping_factor)
               /\ Positive(summary.damped_frequency_rad)
               /\ Positive(summary.damped_frequency_hz)
               /\ FLe(summary.damped_frequency_rad, summary.natural_frequency_rad)
               /\ FLe(summary.damped_frequency_hz, summary.natural_frequency_hz)
               /\ (summary.damped_frequency_rad = summary.natural_frequency_rad)
                     <=> (radicand = One)
               /\ Positive(summary.period_damped)
               /\ \/ FGt(summary.period_damped, period_0)
                  \/ WithinRounding(summary.period_damped, period_0)

\* an underdamped summary whose damped frequency equals the natural frequency
C20_Witness ==
    /\ Returned("calculate_time_constants") /\ ~result.out.raised
    /\ result.out.value.damping_type = "Underdamped"
    /\ FLt(result.out.value.damping_factor, One)
    /\ result.out.value.damped_frequency_rad = result.out.value.natural_frequency_rad
    /\ result.out.value.damped_frequency_hz = result.out.value.natural_frequency_hz

\* C20 as stated: for every underdamped circuit 0 < damped_frequency_rad <
\* omega_0 and 0 < damped_frequency_hz < f_0, and the damped period is longer
\* than 1/f_0.
C20_DampedFrequencyStrictlyLess ==
    (/\ Returned("calculate_time_constants")
     /\ FLt(get_damping_factor(circuit), One)) =>
        /\ ~result.out.raised
        /\ LET summary == result.out.value
           IN  /\ Positive(summary.damped_frequency_rad)
               /\ FLt(summary.damped_frequency_rad, summary.natural_frequency_rad)
               /\ Positive(summary.damped_frequency_hz)
               /\ FLt(summary.damped_frequency_hz, summary.natural_frequency_hz)
               /\ FGt(summary.period_damped, FDiv(One, summary.natural_frequency_hz))

-----------------------------------------------------------------------------
(* The frequency response *)

\* the response computed for the list that holds the natural frequency alone
AtNaturalFrequency ==
    /\ Returned("analyze_frequency_response")
    /\ result.frequencies = <<circuit.f_0>>

\* k units in the last place of 1, times 1 + the q factor: the roundings of
\* the evaluation of H weigh on the result in proportion to the q factor
Tolerance(k) ==
    FMul(FromRatio(k, 2^prec), FAdd(One, get_q_factor(circuit).value))

\* x is within the tolerance tol of the value target
About(x, target, tol) == FLe(FAbs(FSub(x, target)), tol)

\* C11 (as amended): for a series circuit the frequency response evaluated at
\* f = f_0 is H(j*omega_0) = -j*Q up to rounding: the linear magnitude is the
\* q factor Q = 1/(2*zeta) to a relative 16*(1 + Q) units in the last place,
\* the magnitude in dB is 20*log10(Q), and the phase is -90 degrees (-pi/2
\* radians) to 16*(1 + Q) units in the last place of a radian.
C11_SeriesResponseAtNaturalFrequency ==
    AtNaturalFrequency /\ circuit.kind = "Series" =>
        LET response == result.out.value
            Q        == get_q_factor(circuit).value
            Q_db     == FMul(FromInt(20), log10(Q))
        IN  /\ About(response.magnitude_linear[1], Q, FMul(Q, Tolerance(16)))
            /\ About(response.magnitude_db[1], Q_db,
                     FAdd(FMul(FromInt(10), Tolerance(16)),
                          FMul(FromRatio(16, 2^prec), FAbs(Q_db))))
            /\ About(response.phase_rad[1], FNeg(FDiv(Pi, Two)), Tolerance(16))
            /\ About(response.phase_deg[1], FromInt(-90),
                     FMul(FromInt(60), Tolerance(16)))

\* a series circuit of q factor 2, whose response at f_0 has magnitude 2
C11_Witness ==
    /\ AtNaturalFrequency
    /\ circuit.kind = "Series"
    /\ get_q_factor(circuit).value = Two
    /\ result.out.value.magnitude_linear[1] = Two
    /\ FLt(result.out.value.phase_deg[1], FromInt(-80))

\* C11 (as stated): for a series circuit the frequency response at f = f_0
\* has magnitude 1, 0 dB and phase 0 degrees, within the same tolerance.
C11_UnitResponseAtNaturalFrequency ==
    AtNaturalFrequency /\ circuit.kind = "Series" =>
        LET response == result.out.value
        IN  /\ About(response.magnitude_linear[1], One, Tolerance(16))
            /\ About(response.magnitude_db[1], Zero, FMul(FromInt(10), Tolerance(16)))
            /\ About(response.phase_deg[1], Zero, FMul(FromInt(60), Tolerance(16)))

ResponseFields == {"frequencies_hz", "frequencies_rad", "magnitude_db",
                   "magnitude_linear", "phase_deg", "phase_rad"}

\* C14: analyze_frequency_response returns six sequences (frequency in Hz,
\* frequency in rad/s, magnitude in dB, linear magnitude, phase in degrees,
\* phase in radians), each of the length of the input frequency sequence; the
\* Hz sequence is the input itself, omega_k = 2*pi*f_k, and entry k of every
\* output is what the response to the frequency f_k alone holds, so the order
\* of the input is kept.
C14_ResponsePerFrequency ==
    Returned("analyze_frequency_response") =>
        /\ ~result.out.raised
        /\ LET Check(response, frequencies) ==
                 /\ DOMAIN response = ResponseFields
                 /\ \A field \in ResponseFields :
                      DOMAIN response[field] = 1..Len(frequencies)
                 /\ response.frequencies_hz = frequencies
                 /\ \A k \in 1..Len(frequencies) :
                      LET Same(alone) ==
                            \A field \in ResponseFields :
                               response[field][k] = alone[field][1]
                      IN  /\ response.frequencies_rad[k]
                               = FMul(FMul(Two, Pi), frequencies[k])
                          /\ Same(analyze_frequency_response(circuit, <<frequencies[k]>>))
           IN  Check(result.out.value, result.frequencies)

\* a response to frequencies out of order, one of them twice, with different
\* magnitudes at the first and at the last frequency
C14_Witness ==
    /\ Returned("analyze_frequency_response") /\ ~result.out.raised
    /\ Len(result.frequencies) = 4
    /\ FGt(result.frequencies[1], result.frequencies[2])
    /\ result.frequencies[2] = result.frequencies[3]
    /\ result.out.value.magnitude_db[2] = result.out.value.magnitude_db[3]
    /\ result.out.value.magnitude_db[1] # result.out.value.magnitude_db[4]

-----------------------------------------------------------------------------
(* The bandwidth search *)

BandFields == {"lower_frequency_hz", "upper_frequency_hz", "bandwidth_hz",
               "q_factor_measured"}
PeakFields == {"peak_frequency_hz", "peak_magnitude_db", "target_magnitude_db"}

\* the samples k of the sweep with magnitude - target negative at one of the
\* samples k, k + 1 and not at the other
SignChanges(magnitude_db, target) ==
    LET Below == [k \in 1..Len(magnitude_db) |-> FSub(magnitude_db[k], target).sgn < 0]
    IN  {k \in 1..(Len(magnitude_db) - 1) : Below[k] # Below[k + 1]}

\* C12: find_bandwidth returns for every circuit and tolerance; its result
\* holds peak_frequency_hz, peak_magnitude_db and target_magnitude_db = peak +
\* tolerance, and holds the four fields of the band, all together, if and
\* only if magnitude - target changes sign at least twice between consecutive
\* samples of the sweep; with no or one sign change it holds none of the four.
C12_BandFieldsIffTwoCrossings ==
    Returned("find_bandwidth") =>
        /\ ~result.out.raised
        /\ LET Check(data, changes) ==
                 /\ PeakFields \subseteq DOMAIN data
                 /\ DOMAIN data \subseteq PeakFields \cup BandFields
                 /\ data.target_magnitude_db
                      = FAdd(data.peak_magnitude_db, result.tolerance_db)
                 /\ BandFields \subseteq DOMAIN data <=> changes >= 2
                 /\ changes < 2 => BandFields \cap DOMAIN data = {}
           IN  Check(result.out.value,
                     Cardinality(SignChanges(
                        analyze_frequency_response(circuit, sweep(circuit)).magnitude_db,
                        result.out.value.target_magnitude_db)))

\* a sweep with exactly one sign change, reported with the peak alone
C12_Witness ==
    /\ Returned("find_bandwidth") /\ ~result.out.raised
    /\ DOMAIN result.out.value = PeakFields
    /\ Cardinality(SignChanges(
          analyze_frequency_response(circuit, sweep(circuit)).magnitude_db,
          result.out.value.target_magnitude_db)) = 1

\* sample k is the first of the sweep whose magnitude no sample exceeds
IsFirstMaximum(magnitude_db, k) ==
    /\ \A j \in 1..Len(magnitude_db) : FLe(magnitude_db[j], magnitude_db[k])
    /\ \A j \in 1..(k - 1) : FLt(magnitude_db[j], magnitude_db[k])

\* C13: when the sweep has at least two sign changes, lower_frequency_hz is the
\* frequency of the sample at the first sign change and upper_frequency_hz
\* that of the sample at the last one, whatever lies in between, bandwidth_hz
\* = upper - lower, and q_factor_measured = peak_frequency_hz / bandwidth_hz,
\* where peak_frequency_hz is the first sample of the sweep attaining the
\* maximum magnitude.
C13_BandFromFirstAndLastCrossing ==
    (Returned("find_bandwidth") /\ ~result.out.raised) =>
        LET Check(data, frequencies, magnitude_db, changes) ==
              Cardinality(changes) >= 2 =>
                /\ BandFields \subseteq DOMAIN data
                /\ \E k \in changes :
                     /\ \A j \in changes : k <= j
                     /\ data.lower_frequency_hz = frequencies[k]
                /\ \E k \in changes :
                     /\ \A j \in changes : j <= k
                     /\ data.upper_frequency_hz = frequencies[k]
                /\ FLt(data.lower_frequency_hz, data.upper_frequency_hz)
                /\ data.bandwidth_hz
                     = FSub(data.upper_frequency_hz, data.lower_frequency_hz)
                /\ data.q_factor_measured
                     = FDiv(data.peak_frequency_hz, data.bandwidth_hz)
                /\ \E k \in 1..Len(frequencies) :
                     /\ IsFirstMaximum(magnitude_db, k)
                     /\ data.peak_frequency_hz = frequencies[k]
                     /\ data.peak_magnitude_db = magnitude_db[k]
            Sweep(frequencies) ==
              LET Response(magnitude_db) ==
                    Check(result.out.value, frequencies, magnitude_db,
                          SignChanges(magnitude_db, result.out.value.target_magnitude_db))
              IN  Response(analyze_frequency_response(circuit, frequencies).magnitude_db)
        IN  Sweep(sweep(circuit))

\* a sweep with more than two sign changes and the maximum at several samples
C13_Witness ==
    /\ Returned("find_bandwidth") /\ ~result.out.raised
    /\ BandFields \subseteq DOMAIN result.out.value
    /\ LET Several(magnitude_db) ==
             /\ Cardinality(SignChanges(magnitude_db,
                                        result.out.value.target_magnitude_db)) > 2
             /\ Cardinality({k \in 1..Len(magnitude_db) :
                               magnitude_db[k] = result.out.value.peak_magnitude_db}) > 1
       IN  Several(analyze_frequency_response(circuit, sweep(circuit)).magnitude_db)

-----------------------------------------------------------------------------
(* The circuit across the operations, and the commentary on the q factor *)

\* the circuit as the factory made it from the arguments of the session
AsCreated == create_circuit(args.tag, args.R, args.L, args.C).value

\* omega_0^2 * L * C, in the order written
ResonanceProduct(c) == FMul(FMul(FMul(c.omega_0, c.omega_0), c.L), c.C)

\* the circuit of a session after any sequence of operations is the circuit
\* as created, f_0 is omega_0 / (2*pi), and the summary is the summary of the
\* circuit as created
CircuitAsCreated ==
    (pc = "ready" /\ circuit # None) =>
        /\ circuit = AsCreated
        /\ circuit.R = args.R /\ circuit.L = args.L /\ circuit.C = args.C
        /\ circuit.f_0 = FDiv(circuit.omega_0, FMul(Two, Pi))
        /\ Returned("calculate_time_constants")
              => result.out = calculate_time_constants(AsCreated)

\* C18 (as amended): no operation of the core (transfer function, damping and
\* q factor queries, step and sinusoidal simulation, frequency response,
\* find_bandwidth, summary, explanation) changes R, L, C, omega_0 or f_0 of
\* the circuit, so after any sequence of them f_0 = omega_0 / (2*pi) still
\* holds, omega_0^2 * L * C is still 1 to within 8 units in the last place,
\* and the summary is that of the circuit as created, before and after the
\* explanation.
C18_CircuitUnchanged ==
    /\ [](CircuitAsCreated
          /\ ((pc = "ready" /\ circuit # None)
                => About(ResonanceProduct(circuit), One, FromRatio(8, 2^prec))))
    /\ [][pc = "ready" => circuit' = circuit]_vars

\* after an explanation, a circuit as created whose omega_0^2 * L * C is not 1
C18_Witness ==
    /\ Returned("get_educational_insights") /\ ~result.out.raised
    /\ circuit = AsCreated
    /\ ResonanceProduct(circuit) # One
    /\ calculate_time_constants(circuit) = calculate_time_constants(AsCreated)

\* C18 (as stated): no operation changes R, L, C, omega_0 or f_0, and
\* omega_0^2 * L * C = 1 and f_0 = omega_0 / (2*pi) hold after any sequence of
\* operations.
C18_ResonanceProductIsOne ==
    /\ [](CircuitAsCreated
          /\ ((pc = "ready" /\ circuit # None) => ResonanceProduct(circuit) = One))
    /\ [][pc = "ready" => circuit' = circuit]_vars

\* the lines of the explanation
InsightLines == {result.out.value[i] : i \in DOMAIN result.out.value}

\* C19 (as stated): the explanation gates its commentary on the q factor
\* alone: with Q > 10 the list holds the "sharp resonance, low energy loss"
\* line, with Q < 0.5 it holds the "broad resonance, high energy loss" line,
\* and with 0.5 <= Q <= 10 it holds neither.
C19_CommentaryByQFactor ==
    (Returned("get_educational_insights") /\ ~result.out.raised) =>
        LET Check(q_factor) ==
              /\ FGt(q_factor, FromInt(10))
                   => HighQLine \in InsightLines /\ LowQLine \notin InsightLines
              /\ FLt(q_factor, FromRatio(1, 2))
                   => LowQLine \in InsightLines /\ HighQLine \notin InsightLines
              /\ (FLe(FromRatio(1, 2), q_factor) /\ FLe(q_factor, FromInt(10)))
                   => HighQLine \notin InsightLines /\ LowQLine \notin InsightLines
        IN  Check(get_q_factor(circuit).value)

-----------------------------------------------------------------------------
(* The damping regime against the poles of the transfer function *)

\* The two sides of the sign of the discriminant (R*C)^2 - 4*L*C of the
\* denominator L*C*s^2 + R*C*s + 1, which both variants give their transfer
\* function, as exact numbers n * 2^e: R^2*C against 4*L.
PolesLeft  == [n |-> args.R.m * args.R.m * args.C.m, e |-> 2 * args.R.e + args.C.e]
PolesRight == [n |-> args.L.m, e |-> args.L.e + 2]

\* R^2*C * (1 + 2^(4 - prec)) <= 4*L: complex poles, beyond any rounding
PolesComplex ==
    CmpScaled(PolesLeft.n * (2^(prec - 4) + 1), PolesLeft.e - (prec - 4),
              PolesRight.n, PolesRight.e) <= 0

\* 4*L * (1 + 2^(4 - prec)) <= R^2*C: two real poles, beyond any rounding
PolesReal ==
    CmpScaled(PolesRight.n * (2^(prec - 4) + 1), PolesRight.e - (prec - 4),
              PolesLeft.n, PolesLeft.e) <= 0

\* C21: for every circuit of either variant the reported damping regime is
\* the one of the poles of its transfer function, whose denominator is
\* L*C*s^2 + R*C*s + 1: Underdamped where the discriminant (R*C)^2 - 4*L*C
\* is negative, Overdamped where it is positive (here: wherever its sign is
\* beyond the rounding of zeta), Critically Damped only where neither is so.
C21_RegimeOfThePoles ==
    Returned("get_damping_type") =>
        /\ get_transfer_function(circuit).den
             = <<FMul(circuit.L, circuit.C), FMul(circuit.R, circuit.C), One>>
        /\ PolesComplex => result.out.value = "Underdamped"
        /\ PolesReal => result.out.value = "Overdamped"
        /\ result.out.value = "Critically Damped" => ~PolesComplex /\ ~PolesReal

-----------------------------------------------------------------------------
(* The poles and the time constants of the overdamped circuit *)

\* the value formatted into the line of the explanation with the given text
InsightValue(text) ==
    LET line == CHOOSE l \in InsightLines : l.text = text
    IN  line.values[1]

\* the poles of an overdamped summary: pole_1 < pole_2 < 0, their product is
\* omega_0^2 and their sum -2*zeta*omega_0, each to within 8 * zeta^2 units
\* in the last place (pole_2 is a difference of nearly equal numbers), and
\* 0 < time_constant_1 < time_constant_2
OverdampedSummary(summary) ==
    LET zeta    == summary.damping_factor
        omega_0 == summary.natural_frequency_rad
        tol     == FMul(FromRatio(8, 2^prec), FMul(zeta, zeta))
    IN  /\ OverdampedFields \subseteq DOMAIN summary
        /\ FLt(summary.pole_1, summary.pole_2)
        /\ FLt(summary.pole_2, Zero)
        /\ About(FMul(summary.pole_1, summary.pole_2), FMul(omega_0, omega_0),
                 FMul(FMul(omega_0, omega_0), tol))
        /\ About(FAdd(summary.pole_1, summary.pole_2),
                 FNeg(FMul(FMul(Two, zeta), omega_0)),
                 FMul(FMul(FMul(Two, zeta), omega_0), tol))
        /\ Positive(summary.time_constant_1)
        /\ FLt(summary.time_constant_1, summary.time_constant_2)

\* C22: for every overdamped circuit (zeta > 1) the summary holds two real
\* poles with pole_1 < pole_2 < 0, of product omega_0^2 and sum
\* -2*zeta*omega_0 (here: up to rounding), and two positive time constants
\* with time_constant_1 < time_constant_2; the explanation gives the smaller
\* one as "Fast" and the larger one as "Slow".
C22_OverdampedPoles ==
    (pc = "ready" /\ circuit # None /\ FGt(get_damping_factor(circuit), One)) =>
        /\ Returned("calculate_time_constants") =>
              /\ ~result.out.raised
              /\ OverdampedSummary(result.out.value)
        /\ Returned("get_educational_insights") =>
              /\ ~result.out.raised
              /\ LET Check(summary) ==
                       /\ InsightValue("   Fast Time Constant: {:.4f} seconds")
                            = summary.time_constant_1
                       /\ InsightValue("   Slow Time Constant: {:.4f} seconds")
                            = summary.time_constant_2
                       /\ FLt(summary.time_constant_1, summary.time_constant_2)
                 IN  Check(calculate_time_constants(circuit).value)

-----------------------------------------------------------------------------
(* The edges of the band *)

\* sample k of the sweep is below the target and sample k + 1 is not, or the
\* other way round; a magnitude equal to the target is not below it
CrossesAt(magnitude_db, target, k) ==
    FLt(magnitude_db[k], target) # FLt(magnitude_db[k + 1], target)

\* C23: whenever find_bandwidth reports the edges of the band,
\* lower_frequency_hz < upper_frequency_hz strictly and bandwidth_hz > 0, so
\* q_factor_measured is a quotient by a positive number; each edge is a
\* frequency of the sweep itself, that of the earlier sample of a pair of
\* consecutive samples of which one is below the target and the other is not
\* (a sample at the target is not below it), and no such pair lies before
\* the lower edge or after the upper one.
C23_BandEdges ==
    (/\ Returned("find_bandwidth")
     /\ ~result.out.raised
     /\ BandFields \cap DOMAIN result.out.value # {}) =>
        LET Check(data, frequencies, magnitude_db) ==
              LET Edge(frequency) ==
                    \E k \in 1..(Len(frequencies) - 1) :
                       /\ frequencies[k] = frequency
                       /\ CrossesAt(magnitude_db, data.target_magnitude_db, k)
              IN  /\ FLt(data.lower_frequency_hz, data.upper_frequency_hz)
                  /\ Positive(data.bandwidth_hz)
                  /\ Positive(data.q_factor_measured)
                  /\ Edge(data.lower_frequency_hz)
                  /\ Edge(data.upper_frequency_hz)
                  /\ \A k \in 1..(Len(frequencies) - 1) :
                       CrossesAt(magnitude_db, data.target_magnitude_db, k)
                          => /\ FLe(data.lower_frequency_hz, frequencies[k])
                             /\ FLe(frequencies[k], data.upper_frequency_hz)
                  /\ \A k \in 1..(Len(frequencies) - 1) :
                       FLt(frequencies[k], frequencies[k + 1])
            Sweep(frequencies) ==
              Check(result.out.value, frequencies,
                    analyze_frequency_response(circuit, frequencies).magnitude_db)
        IN  Sweep(sweep(circuit))

\* a band reported at tolerance 0, where the samples at the maximum are at the
\* target, with the lower edge before the peak
C23_Witness ==
    /\ Returned("find_bandwidth") /\ ~result.out.raised
    /\ BandFields \subseteq DOMAIN result.out.value
    /\ result.tolerance_db = Zero
    /\ result.out.value.target_magnitude_db = result.out.value.peak_magnitude_db
    /\ FLt(result.out.value.lower_frequency_hz, result.out.value.peak_frequency_hz)

-----------------------------------------------------------------------------
(* The figure the window saves *)

\* the figure on the canvas was drawn by Simulate, Frequency Response or
\* Compare Damping
PlotOnDisplay == gui.figures[gui.canvas_figure].kind # "blank"

\* C24: after any sequence of the buttons Simulate, Frequency Response,
\* Compare Damping, Save Plot and Reset, whether their validation passes or
\* not, the figure Save Plot would write (current_figure), when there is one,
\* is the figure on the canvas (self.fig); and Save Plot warns "No Plot"
\* exactly when no plot of a successful Simulate, Frequency Response or
\* Compare Damping is on display.
C24_SavedFigureIsShown ==
    gui # None =>
        /\ gui.current_figure # NoFigure =>
              gui.current_figure = gui.fig /\ gui.current_figure = gui.canvas_figure
        /\ Returned("save_plot") =>
              (result.dialogs = <<"No Plot">>) <=> ~PlotOnDisplay

=============================================================================
